---- MODULE Spec2Model ----
(***************************************************************************)
(* RBAC authorization engine of the backend: the roles / permissions /     *)
(* user_roles / role_permissions tables, RBACService, RBACController and   *)
(* the rbac middleware gates, as a state machine over the relational store.*)
(***************************************************************************)
EXTENDS Integers, Sequences, FiniteSets, TLC

NULL == "null"

(* ------------------------------ bounds --------------------------------- *)
\* last value of the clock (new Date()) the model lets time reach
MaxTime == 1
\* how many roles createRole may create in one run (initializeDefaultRoles is
\* not capped)
MaxCreatedRoles == 1
\* last user_roles id UserRole.create may hand out
MaxUserRoleId == 2

(* --------------------------- input domains ----------------------------- *)
\* rows of the users table
Users == {"u1", "u2"}
\* principal ids a caller can name; "u9" has no users row
Principals == Users \cup {"u9"}
\* principal ids callers pass to assignRole / removeRole as the target
AssignPrincipals == {"u1", "u9"}
\* names of the roles callers target with updateRole / deleteRole
TargetRoleNames == {"editor", "guide", "moderator"}
\* new names callers pass to updateRole (NULL: name undefined)
RenameNames == {NULL, "guide"}
\* role names callers pass to createRole / updateRole
CustomRoleNames == {"editor", "guide"}
\* the display_name callers pass to createRole (required by createRoleSchema)
CustomDisplayName == "Custom role"
\* role names callers pass to assignRole / removeRole
AssignRoleNames == {"guide", "editor"}
\* permission_ids lists callers pass to createRole / updateRole
PermissionIdLists == {{}, {"message.read"}, {"message.read", "system.admin"}}

(* ----------------------- default policy tables ------------------------- *)
DefaultRoles ==
    <<"super_admin", "admin", "guide", "moderator", "tourist", "user">>

\* display_name and description of the defaultRoles entries
DefaultRoleData ==
    [n \in {"super_admin", "admin", "guide", "moderator", "tourist", "user"} |->
        CASE n = "super_admin" ->
                [display_name |-> "Super Administrator",
                 description |-> "Full system access with all permissions"]
          [] n = "admin" ->
                [display_name |-> "Administrator",
                 description |-> "System administrator with management permissions"]
          [] n = "guide" ->
                [display_name |-> "Tour Guide",
                 description |-> "Can create and manage routes and voice guides"]
          [] n = "moderator" ->
                [display_name |-> "Content Moderator",
                 description |-> "Can moderate content and manage user reports"]
          [] n = "tourist" ->
                [display_name |-> "Tourist",
                 description |-> "Tourist with basic access to view and use routes"]
          [] OTHER ->
                [display_name |-> "Regular User",
                 description |-> "Standard user with basic permissions"]]

DefaultPermissions ==
    <<"user.create", "user.read", "user.update", "user.delete", "user.manage",
      "route.create", "route.read", "route.update", "route.delete", "route.manage",
      "message.create", "message.read", "message.update", "message.delete", "message.manage",
      "tourist.create", "tourist.read", "tourist.update", "tourist.delete", "tourist.manage",
      "voice_guide.create", "voice_guide.read", "voice_guide.update", "voice_guide.delete",
      "voice_guide.manage",
      "system.admin", "system.logs", "system.analytics",
      "role.create", "role.read", "role.update", "role.delete", "role.assign">>

AdminPermissions ==
    {"user.read", "user.update", "user.manage",
     "route.read", "route.update", "route.manage",
     "message.read", "message.update", "message.manage",
     "tourist.read", "tourist.update", "tourist.manage",
     "voice_guide.read", "voice_guide.update", "voice_guide.manage",
     "system.logs", "system.analytics",
     "role.read", "role.assign"}

GuidePermissions ==
    {"route.create", "route.read", "route.update", "route.delete",
     "voice_guide.create", "voice_guide.read", "voice_guide.update", "voice_guide.delete",
     "message.create", "message.read", "message.update", "message.delete",
     "tourist.read"}

ModeratorPermissions ==
    {"route.read", "route.update",
     "message.read", "message.update", "message.delete",
     "tourist.read", "tourist.update",
     "voice_guide.read", "voice_guide.update",
     "user.read"}

TouristPermissions ==
    {"route.read", "voice_guide.read",
     "tourist.create", "tourist.read", "tourist.update",
     "message.read"}

UserPermissions ==
    {"route.read", "voice_guide.read", "message.read"}

SeqToSet(s) == {s[i] : i \in 1..Len(s)}

PermissionNames == SeqToSet(DefaultPermissions)

(* ------------------------------- state --------------------------------- *)
VARIABLES
    roles,            \* roles table: records [id, name, display_name, description,
                      \*   is_active, is_system]
    nextRoleId,       \* next fresh roles.id
    permissions,      \* permissions table: records [name, is_active]
    rolePermissions,  \* role_permissions table: records [role_id, permission]
    userRoles,        \* user_roles table: records [id, user_id, role_id, is_active,
                      \*   assigned_by, assigned_at, expires_at, created_at]
    nextUserRoleId,   \* next fresh user_roles.id
    now,              \* the clock read by new Date()
    calls,            \* assignRole calls in flight, one per request slot
    last,             \* outcome of the last completed service / controller call
    gate              \* outcome of the last completed middleware gate

vars == <<roles, nextRoleId, permissions, rolePermissions, userRoles,
          nextUserRoleId, now, calls, last, gate>>

storeVars == <<roles, nextRoleId, permissions, rolePermissions, userRoles,
               nextUserRoleId>>


(* ------------------------------ helpers -------------------------------- *)
RoleIds == {r.id : r \in roles}

\* `last` and `gate` hold the response to the request just handled; the next
\* step, whatever it is, replaces or clears them.
\* outcome record of a completed service / controller call
Outcome(op, status, message, record) ==
    [op |-> op, status |-> status, message |-> message, record |-> record]

NoOutcome == Outcome("none", 0, NULL, NULL)

\* no middleware gate has answered the request at hand
NoGate == [kind |-> "none"]

\* a request slot with no assignRole call in flight
IdleCall ==
    [pc |-> "idle", userId |-> NULL, roleName |-> NULL, assignedBy |-> NULL,
     role_id |-> 0, existing |-> {}]

Slots == {1, 2}

(* ------------------------------ queries -------------------------------- *)
\* Role.findOne({ where: { name } })
RoleFindOneByName(name) == {r \in roles : r.name = name}

\* mutant of RoleFindOneActiveByName: the lookup has no is_active condition
RoleFindOneAnyFlag(name) == {r \in roles : r.name = name}

\* Role.findOne({ where: { name, is_active: true } })
RoleFindOneActiveByName(name) == {r \in roles : r.name = name /\ r.is_active}

\* Role.findByPk(id)
RoleFindByPk(id) == {r \in roles : r.id = id}

\* UserRole.findOne({ where: { user_id, role_id } })
UserRoleFindOne(userId, roleId) ==
    {ur \in userRoles : ur.user_id = userId /\ ur.role_id = roleId}

\* UserRole.findOne({ where: { user_id, role_id, is_active: true } })
UserRoleFindOneActive(userId, roleId) ==
    {ur \in userRoles : ur.user_id = userId /\ ur.role_id = roleId /\ ur.is_active}

\* Permission.findAll({ where: { id: { [Op.in]: ids }, is_active: true } });
\* a permission's id is modelled by its (unique, immutable) name
PermissionFindActiveIn(ids) ==
    {p.name : p \in {q \in permissions : q.name \in ids /\ q.is_active}}

\* mutant of SetPermissions: the new rows are added to the role's old rows
SetPermissionsMerges(grants, roleId, perms) ==
    grants \cup {[role_id |-> roleId, permission |-> p] : p \in perms}

\* role.setPermissions(perms): the role's grant rows become exactly perms
SetPermissions(grants, roleId, perms) ==
    {rp \in grants : rp.role_id # roleId}
        \cup {[role_id |-> roleId, permission |-> p] : p \in perms}


(* --------------------------- store constraints -------------------------- *)
\* mutant of UserRoleUniqueViolated: user_roles has no unique index
NoUniqueIndex(userId, roleId) == FALSE

\* unique index on user_roles (user_id, role_id)
UserRoleUniqueViolated(userId, roleId) ==
    \E ur \in userRoles : ur.user_id = userId /\ ur.role_id = roleId

\* foreign keys of user_roles: user_id -> users, role_id -> roles,
\* assigned_by -> users (nullable)
UserRoleForeignKeysOk(userId, roleId, assignedBy) ==
    /\ userId \in Users
    /\ roleId \in RoleIds
    /\ assignedBy \in Users \cup {NULL}

\* the row UserRole.create({ user_id, role_id, assigned_by }) inserts:
\* is_active defaults to true, assigned_at and created_at to NOW, expires_at to
\* null (<<>>; <<t>> is the date t)
NewUserRole(userId, roleId, assignedBy) ==
    [id |-> nextUserRoleId, user_id |-> userId, role_id |-> roleId,
     is_active |-> TRUE, assigned_by |-> assignedBy, assigned_at |-> now,
     expires_at |-> <<>>, created_at |-> now]

\* mutant of ReactivatedRow: the reactivation leaves assigned_by as it was
ReactivatedRowKeepsAssigner(ur, assignedBy) ==
    [ur EXCEPT !.is_active = TRUE, !.assigned_at = now]

\* existingUserRole.update({ is_active: true, assigned_by, assigned_at: new Date() }):
\* UPDATE ... WHERE id = existing.id
ReactivatedRow(ur, assignedBy) ==
    [ur EXCEPT !.is_active = TRUE, !.assigned_by = assignedBy, !.assigned_at = now]

Reactivate(id, assignedBy) ==
    {IF ur.id = id THEN ReactivatedRow(ur, assignedBy) ELSE ur : ur \in userRoles}

\* mutant of Deactivate: the row is destroyed instead of updated
DeactivateDeletes(id) == {ur \in userRoles : ur.id # id}

\* userRole.update({ is_active: false })
Deactivate(id) ==
    {IF ur.id = id THEN [ur EXCEPT !.is_active = FALSE] ELSE ur : ur \in userRoles}

(* ------------------------- permission resolver -------------------------- *)
\* User.findByPk(userId)
UserFindByPk(userId) == userId \in Users

\* mutant of IncludedRoles: the through-table filter on is_active is missing
IncludedRolesAnyAssignment(userId) ==
    {r \in roles : \E ur \in userRoles : ur.user_id = userId /\ ur.role_id = r.id}

\* user.roles of the include { model: Role, through: { where: { is_active: true } } }
IncludedRoles(userId) ==
    {r \in roles : \E ur \in userRoles :
        ur.user_id = userId /\ ur.role_id = r.id /\ ur.is_active}

\* role.permissions of the nested include with where { name, is_active: true }
IncludedPermissionsNamed(role, permissionName) ==
    {p \in permissions :
        /\ p.name = permissionName
        /\ p.is_active
        /\ [role_id |-> role.id, permission |-> p.name] \in rolePermissions}

\* mutant of IncludedPermissions: the filter on permissions.is_active is missing
IncludedPermissionsAnyFlag(role) ==
    {p \in permissions :
        [role_id |-> role.id, permission |-> p.name] \in rolePermissions}

\* role.permissions of the nested include with where { is_active: true }
IncludedPermissions(role) ==
    {p \in permissions :
        /\ p.is_active
        /\ [role_id |-> role.id, permission |-> p.name] \in rolePermissions}

\* RBACService.hasPermission: false when the query rejects (catch) or no user row
hasPermission(storeOk, userId, permissionName) ==
    IF ~storeOk THEN FALSE
    ELSE IF ~UserFindByPk(userId) THEN FALSE
    ELSE /\ IncludedRoles(userId) # {}
         /\ \E role \in IncludedRoles(userId) :
                IncludedPermissionsNamed(role, permissionName) # {}

\* RBACService.getUserPermissions: the names collected into a Set; [] when the
\* query rejects (catch) or no user row
getUserPermissions(storeOk, userId) ==
    IF ~storeOk THEN {}
    ELSE IF ~UserFindByPk(userId) THEN {}
    ELSE UNION {{p.name : p \in IncludedPermissions(role)} :
                    role \in IncludedRoles(userId)}


(* ------------------------------ bootstrap ------------------------------- *)
DefaultRoleNames == SeqToSet(DefaultRoles)

\* how many of the first i default roles findOrCreate has to create
RECURSIVE CreatedAmongFirst(_)
CreatedAmongFirst(i) ==
    IF i = 0 THEN 0
    ELSE CreatedAmongFirst(i - 1)
            + (IF RoleFindOneByName(DefaultRoles[i]) = {} THEN 1 ELSE 0)

\* mutant of RolesAfterDefaults: Role.create for every default role, found or not
RolesAfterDefaultsAlwaysCreates ==
    roles \cup
    {[id |-> nextRoleId + i - 1, name |-> DefaultRoles[i],
      display_name |-> DefaultRoleData[DefaultRoles[i]].display_name,
      description |-> DefaultRoleData[DefaultRoles[i]].description,
      is_active |-> TRUE, is_system |-> TRUE] : i \in 1..Len(DefaultRoles)}

\* initializeDefaultRoles: Role.findOrCreate({ where: { name }, defaults }) in order
RolesAfterDefaults ==
    roles \cup
    {[id |-> nextRoleId + CreatedAmongFirst(i - 1), name |-> DefaultRoles[i],
      display_name |-> DefaultRoleData[DefaultRoles[i]].display_name,
      description |-> DefaultRoleData[DefaultRoles[i]].description,
      is_active |-> TRUE, is_system |-> TRUE] :
        i \in {j \in 1..Len(DefaultRoles) : RoleFindOneByName(DefaultRoles[j]) = {}}}

\* mutant of PermissionsAfterDefaults: an upsert that sets is_active again
PermissionsAfterDefaultsUpserts ==
    {p \in permissions : p.name \notin PermissionNames} \cup
    {[name |-> n, is_active |-> TRUE] : n \in PermissionNames}

\* initializeDefaultPermissions: Permission.findOrCreate({ where: { name } })
PermissionsAfterDefaults ==
    permissions \cup
    {[name |-> n, is_active |-> TRUE] :
        n \in {m \in PermissionNames : \A p \in permissions : p.name # m}}

\* mutant of DefaultGrantsOf: super_admin is given the admin list
DefaultGrantsOfSuperAsAdmin(roleName, perms) ==
    CASE roleName \in {"super_admin", "admin"} ->
            {p.name : p \in {q \in perms : q.name \in AdminPermissions}}
      [] roleName = "guide" -> {p.name : p \in {q \in perms : q.name \in GuidePermissions}}
      [] roleName = "moderator" ->
            {p.name : p \in {q \in perms : q.name \in ModeratorPermissions}}
      [] roleName = "tourist" ->
            {p.name : p \in {q \in perms : q.name \in TouristPermissions}}
      [] roleName = "user" -> {p.name : p \in {q \in perms : q.name \in UserPermissions}}
      [] OTHER -> {}

\* the permission list assignDefaultRolePermissions looks up for a default role:
\* the active catalog for super_admin, Op.in name lists for the others
DefaultGrantsOf(roleName, perms) ==
    CASE roleName = "super_admin" -> {p.name : p \in {q \in perms : q.is_active}}
      [] roleName = "admin" -> {p.name : p \in {q \in perms : q.name \in AdminPermissions}}
      [] roleName = "guide" -> {p.name : p \in {q \in perms : q.name \in GuidePermissions}}
      [] roleName = "moderator" ->
            {p.name : p \in {q \in perms : q.name \in ModeratorPermissions}}
      [] roleName = "tourist" ->
            {p.name : p \in {q \in perms : q.name \in TouristPermissions}}
      [] roleName = "user" -> {p.name : p \in {q \in perms : q.name \in UserPermissions}}
      [] OTHER -> {}

\* assignDefaultRolePermissions: Role.findOne({ where: { name } }) then
\* role.setPermissions(list) for each of the six names
GrantsAfterDefaults(rs, perms, grants) ==
    {rp \in grants :
        \A r \in rs : r.name \in DefaultRoleNames => rp.role_id # r.id}
    \cup
    UNION {{[role_id |-> r.id, permission |-> p] : p \in DefaultGrantsOf(r.name, perms)} :
            r \in {x \in rs : x.name \in DefaultRoleNames}}

\* RBACController.initializeRBAC -> RBACService.initializeRBAC
InitializeRBAC ==
    /\ UNCHANGED <<userRoles, nextUserRoleId, now, calls>>
    /\ gate' = NoGate
    /\ roles' = RolesAfterDefaults
    /\ nextRoleId' = nextRoleId + CreatedAmongFirst(Len(DefaultRoles))
    /\ permissions' = PermissionsAfterDefaults
    /\ rolePermissions' =
         GrantsAfterDefaults(RolesAfterDefaults, PermissionsAfterDefaults,
                             rolePermissions)
    /\ last' = Outcome("initializeRBAC", 200, NULL, NULL)

(* ---------------------------- role registry ----------------------------- *)
\* roles createRole has created so far: every id handed out that did not go to
\* a system role (system roles are never deleted)
CreatedRoles == nextRoleId - 1 - Cardinality({r \in roles : r.is_system})

\* RBACController.createRole
CreateRole(name, display_name, description, permission_ids) ==
    /\ UNCHANGED <<permissions, userRoles, nextUserRoleId, now, calls>>
    /\ gate' = NoGate
    /\ IF RoleFindOneByName(name) # {}
       THEN /\ last' = Outcome("createRole", 400, "Role with this name already exists", NULL)
            /\ UNCHANGED <<roles, nextRoleId, rolePermissions>>
       ELSE /\ CreatedRoles < MaxCreatedRoles
            /\ roles' = roles \cup {[id |-> nextRoleId, name |-> name,
                                     display_name |-> display_name,
                                     description |-> description,
                                     is_active |-> TRUE, is_system |-> FALSE]}
            /\ nextRoleId' = nextRoleId + 1
            /\ rolePermissions' =
                 IF permission_ids # {}
                 THEN SetPermissions(rolePermissions, nextRoleId,
                                     PermissionFindActiveIn(permission_ids))
                 ELSE rolePermissions
            /\ last' = Outcome("createRole", 201, NULL, NULL)

\* role.update(updateData) on the name column under the unique index on roles.name
RoleNameTaken(id, name) == \E r \in roles : r.id # id /\ r.name = name

\* role.update(updateData): the fields the request defines are written
UpdatedRole(role, name, display_name, description) ==
    [role EXCEPT
        !.name = IF name # NULL THEN name ELSE @,
        !.display_name = IF display_name # NULL THEN display_name ELSE @,
        !.description = IF description # NULL THEN description ELSE @]

\* mutant of UpdateRole: the is_system test comes after role.update
UpdateRoleChecksAfterWrite(id, name, display_name, description, hasIds, permission_ids) ==
    /\ UNCHANGED <<nextRoleId, permissions, userRoles, nextUserRoleId, now, calls>>
    /\ gate' = NoGate
    /\ IF RoleFindByPk(id) = {}
       THEN /\ last' = Outcome("updateRole", 404, "Role not found", NULL)
            /\ UNCHANGED <<roles, rolePermissions>>
       ELSE IF name # NULL /\ RoleNameTaken(id, name)
       THEN /\ last' = Outcome("updateRole", 500, "Validation error", NULL)
            /\ UNCHANGED <<roles, rolePermissions>>
       ELSE /\ roles' = {IF r.id = id
                         THEN UpdatedRole(r, name, display_name, description)
                         ELSE r : r \in roles}
            /\ IF (CHOOSE r \in RoleFindByPk(id) : TRUE).is_system
               THEN /\ last' = Outcome("updateRole", 400, "Cannot modify system roles", NULL)
                    /\ UNCHANGED rolePermissions
               ELSE /\ rolePermissions' =
                         IF hasIds
                         THEN SetPermissions(rolePermissions, id,
                                             PermissionFindActiveIn(permission_ids))
                         ELSE rolePermissions
                    /\ last' = Outcome("updateRole", 200, NULL, NULL)

\* mutant of UpdateRole: the is_system test is missing
UpdateRoleNoSystemGuard(id, name, display_name, description, hasIds, permission_ids) ==
    /\ UNCHANGED <<nextRoleId, permissions, userRoles, nextUserRoleId, now, calls>>
    /\ gate' = NoGate
    /\ IF RoleFindByPk(id) = {}
       THEN /\ last' = Outcome("updateRole", 404, "Role not found", NULL)
            /\ UNCHANGED <<roles, rolePermissions>>
       ELSE IF name # NULL /\ RoleNameTaken(id, name)
       THEN /\ last' = Outcome("updateRole", 500, "Validation error", NULL)
            /\ UNCHANGED <<roles, rolePermissions>>
       ELSE /\ roles' = {IF r.id = id
                         THEN UpdatedRole(r, name, display_name, description)
                         ELSE r : r \in roles}
            /\ rolePermissions' =
                 IF hasIds
                 THEN SetPermissions(rolePermissions, id,
                                     PermissionFindActiveIn(permission_ids))
                 ELSE rolePermissions
            /\ last' = Outcome("updateRole", 200, NULL, NULL)

\* RBACController.updateRole; name, display_name, description are NULL when
\* undefined, hasIds is FALSE when permission_ids is undefined
UpdateRole(id, name, display_name, description, hasIds, permission_ids) ==
    /\ UNCHANGED <<nextRoleId, permissions, userRoles, nextUserRoleId, now, calls>>
    /\ gate' = NoGate
    /\ IF RoleFindByPk(id) = {}
       THEN /\ last' = Outcome("updateRole", 404, "Role not found", NULL)
            /\ UNCHANGED <<roles, rolePermissions>>
       ELSE LET role == CHOOSE r \in RoleFindByPk(id) : TRUE IN
            IF role.is_system
            THEN /\ last' = Outcome("updateRole", 400, "Cannot modify system roles", NULL)
                 /\ UNCHANGED <<roles, rolePermissions>>
            ELSE IF name # NULL /\ RoleNameTaken(id, name)
            THEN /\ last' = Outcome("updateRole", 500, "Validation error", NULL)
                 /\ UNCHANGED <<roles, rolePermissions>>
            ELSE /\ roles' = {IF r.id = id
                              THEN UpdatedRole(r, name, display_name, description)
                              ELSE r : r \in roles}
                 /\ rolePermissions' =
                      IF hasIds
                      THEN SetPermissions(rolePermissions, id,
                                          PermissionFindActiveIn(permission_ids))
                      ELSE rolePermissions
                 /\ last' = Outcome("updateRole", 200, NULL, NULL)

\* mutant of ActiveUserCount: the count has no filter on is_active
ActiveUserCountAnyRecord(id) == Cardinality({ur \in userRoles : ur.role_id = id})

\* UserRole.count({ where: { role_id: id, is_active: true } })
ActiveUserCount(id) ==
    Cardinality({ur \in userRoles : ur.role_id = id /\ ur.is_active})

\* mutant of DeleteRole: the is_system test is missing
DeleteRoleNoSystemGuard(id) ==
    /\ UNCHANGED <<nextRoleId, permissions, nextUserRoleId, now, calls>>
    /\ gate' = NoGate
    /\ IF RoleFindByPk(id) = {}
       THEN /\ last' = Outcome("deleteRole", 404, "Role not found", NULL)
            /\ UNCHANGED <<roles, rolePermissions, userRoles>>
       ELSE IF ActiveUserCount(id) > 0
       THEN /\ last' = Outcome("deleteRole", 400, "Cannot delete role: users assigned",
                               [userCount |-> ActiveUserCount(id)])
            /\ UNCHANGED <<roles, rolePermissions, userRoles>>
       ELSE /\ roles' = {r \in roles : r.id # id}
            /\ rolePermissions' = {rp \in rolePermissions : rp.role_id # id}
            /\ userRoles' = {ur \in userRoles : ur.role_id # id}
            /\ last' = Outcome("deleteRole", 200, NULL, NULL)

\* RBACController.deleteRole; role.destroy() cascades to the role's user_roles and
\* role_permissions rows (onDelete CASCADE of the belongsToMany through tables)
DeleteRole(id) ==
    /\ UNCHANGED <<nextRoleId, permissions, nextUserRoleId, now, calls>>
    /\ gate' = NoGate
    /\ IF RoleFindByPk(id) = {}
       THEN /\ last' = Outcome("deleteRole", 404, "Role not found", NULL)
            /\ UNCHANGED <<roles, rolePermissions, userRoles>>
       ELSE LET role == CHOOSE r \in RoleFindByPk(id) : TRUE IN
            IF role.is_system
            THEN /\ last' = Outcome("deleteRole", 400, "Cannot delete system roles", NULL)
                 /\ UNCHANGED <<roles, rolePermissions, userRoles>>
            ELSE IF ActiveUserCount(id) > 0
            THEN /\ last' = Outcome("deleteRole", 400, "Cannot delete role: users assigned",
                                    [userCount |-> ActiveUserCount(id)])
                 /\ UNCHANGED <<roles, rolePermissions, userRoles>>
            ELSE /\ roles' = roles \ {role}
                 /\ rolePermissions' = {rp \in rolePermissions : rp.role_id # id}
                 /\ userRoles' = {ur \in userRoles : ur.role_id # id}
                 /\ last' = Outcome("deleteRole", 200, NULL, NULL)


(* --------------------------- assignment store --------------------------- *)
\* mutant of AssignWriteTable: an existing record is re-stamped whether or not it
\* is active
AssignWriteTableRestamps(userId, roleId, existing, assignedBy) ==
    IF existing # {}
    THEN Reactivate((CHOOSE ur \in existing : TRUE).id, assignedBy)
    ELSE IF UserRoleUniqueViolated(userId, roleId)
            \/ ~UserRoleForeignKeysOk(userId, roleId, assignedBy)
         THEN userRoles
         ELSE userRoles \cup {NewUserRole(userId, roleId, assignedBy)}

\* RBACService.assignRole once role and existingUserRole are read: the new
\* user_roles table, the next id and the controller's response
AssignWriteTable(userId, roleId, existing, assignedBy) ==
    IF existing # {}
    THEN LET e == CHOOSE ur \in existing : TRUE IN
         IF ~e.is_active THEN Reactivate(e.id, assignedBy) ELSE userRoles
    ELSE IF UserRoleUniqueViolated(userId, roleId)
            \/ ~UserRoleForeignKeysOk(userId, roleId, assignedBy)
         THEN userRoles
         ELSE userRoles \cup {NewUserRole(userId, roleId, assignedBy)}

AssignWriteOutcome(userId, roleName, roleId, existing, assignedBy) ==
    IF existing # {}
    THEN LET e == CHOOSE ur \in existing : TRUE IN
         IF ~e.is_active
         THEN Outcome("assignRole", 200, NULL,
                      ReactivatedRow(e, assignedBy))
         ELSE Outcome("assignRole", 400, "User already has this role", NULL)
    ELSE IF UserRoleUniqueViolated(userId, roleId)
         THEN Outcome("assignRole", 400, "Validation error", NULL)
         ELSE IF ~UserRoleForeignKeysOk(userId, roleId, assignedBy)
         THEN Outcome("assignRole", 400, "SequelizeForeignKeyConstraintError", NULL)
         ELSE Outcome("assignRole", 200, NULL,
                      NewUserRole(userId, roleId, assignedBy))

AssignCreates(userId, roleId, existing, assignedBy) ==
    /\ existing = {}
    /\ ~UserRoleUniqueViolated(userId, roleId)
    /\ UserRoleForeignKeysOk(userId, roleId, assignedBy)

\* RBACController.assignRoleToUser -> RBACService.assignRole, run without
\* another request in between
AssignRoleToUser(userId, roleName, assignedBy) ==
    /\ UNCHANGED <<roles, nextRoleId, permissions, rolePermissions, now, calls>>
    /\ gate' = NoGate
    /\ IF RoleFindOneActiveByName(roleName) = {}
       THEN /\ last' = Outcome("assignRole", 400, "Role not found", NULL)
            /\ UNCHANGED <<userRoles, nextUserRoleId>>
       ELSE LET role == CHOOSE r \in RoleFindOneActiveByName(roleName) : TRUE
                existing == UserRoleFindOne(userId, role.id)
                creates == AssignCreates(userId, role.id, existing, assignedBy)
            IN  /\ creates => nextUserRoleId <= MaxUserRoleId
                /\ userRoles' = AssignWriteTable(userId, role.id, existing, assignedBy)
                /\ nextUserRoleId' = IF creates THEN nextUserRoleId + 1 ELSE nextUserRoleId
                /\ last' = AssignWriteOutcome(userId, roleName, role.id, existing,
                                              assignedBy)

\* RBACController.removeRoleFromUser -> RBACService.removeRole
RemoveRoleFromUser(userId, roleName) ==
    /\ UNCHANGED <<roles, nextRoleId, permissions, rolePermissions, nextUserRoleId,
                   now, calls>>
    /\ gate' = NoGate
    /\ IF RoleFindOneByName(roleName) = {}
       THEN /\ last' = Outcome("removeRole", 400, "Role not found", NULL)
            /\ UNCHANGED userRoles
       ELSE LET role == CHOOSE r \in RoleFindOneByName(roleName) : TRUE
                found == UserRoleFindOneActive(userId, role.id)
            IN  IF found = {}
                THEN /\ last' = Outcome("removeRole", 400, "User does not have this role", NULL)
                     /\ UNCHANGED userRoles
                ELSE /\ userRoles' = Deactivate((CHOOSE ur \in found : TRUE).id)
                     /\ last' = Outcome("removeRole", 200, NULL, NULL)

(* ----------------------------- environment ------------------------------ *)
\* time passes between two requests
Tick ==
    /\ now < MaxTime
    /\ now' = now + 1
    /\ last' = NoOutcome
    /\ gate' = NoGate
    /\ UNCHANGED <<storeVars, calls>>

(* --------------------------- specifications ----------------------------- *)
\* the tables right after sequelize.sync on an empty database
Init ==
    /\ roles = {}
    /\ nextRoleId = 1
    /\ permissions = {}
    /\ rolePermissions = {}
    /\ userRoles = {}
    /\ nextUserRoleId = 1
    /\ now = 0
    /\ calls = [s \in Slots |-> IdleCall]
    /\ last = NoOutcome
    /\ gate = NoGate

\* the service and controller operations, one request at a time
\* ids of the roles a caller targets, and 0 for an id of no role
TargetRoleIds == {r.id : r \in {x \in roles : x.name \in TargetRoleNames}} \cup {0}

Next ==
    \/ InitializeRBAC
    \/ \E name \in CustomRoleNames, ids \in PermissionIdLists : CreateRole(name, CustomDisplayName, NULL, ids)
    \/ \E id \in TargetRoleIds, name \in RenameNames : UpdateRole(id, name, NULL, NULL, FALSE, {})
    \/ \E id \in TargetRoleIds, name \in RenameNames, ids \in PermissionIdLists :
          UpdateRole(id, name, NULL, NULL, TRUE, ids)
    \/ \E id \in TargetRoleIds : DeleteRole(id)
    \/ \E u \in AssignPrincipals, n \in AssignRoleNames, by \in Users :
          AssignRoleToUser(u, n, by)
    \/ \E u \in AssignPrincipals, n \in AssignRoleNames : RemoveRoleFromUser(u, n)

Spec == Init /\ [][Next]_vars


(* ------------------------- vocabulary of the claims --------------------- *)
\* permission names a caller can ask about: the catalog and a name outside it
AskedPermissions == PermissionNames \cup {"report.export"}

\* the permission grant set of a role: the permissions its grant rows name
GrantSet(roleId) == {rp.permission : rp \in {x \in rolePermissions : x.role_id = roleId}}

\* an assignment whose expiry date has passed
Expired(ur) == ur.expires_at # <<>> /\ now > ur.expires_at[1]

\* P has an active assignment of the role named roleName
HasActiveAssignment(P, roleName) ==
    \E r \in roles, ur \in userRoles :
        r.name = roleName /\ ur.role_id = r.id /\ ur.user_id = P /\ ur.is_active

(* -------------------------------- C1 ------------------------------------ *)
\* C1: in every state reached by initializeRBAC, createRole, updateRole,
\* deleteRole, assignRole and removeRole, hasPermission(P, X) is true exactly
\* when X is in the grant set of some role that has an active, non-expired
\* assignment to P.
C1_HasPermissionIffGranted ==
    \A P \in Principals, X \in AskedPermissions :
        hasPermission(TRUE, P, X)
            <=> \E ur \in userRoles :
                    /\ ur.user_id = P
                    /\ ur.is_active
                    /\ ~Expired(ur)
                    /\ X \in GrantSet(ur.role_id)

\* a principal holds a permission through one role while another of its
\* assignments has been removed
C1_Witness ==
    \E P \in Principals, X \in AskedPermissions :
        /\ hasPermission(TRUE, P, X)
        /\ \E ur \in userRoles : ur.user_id = P /\ ~ur.is_active

(* -------------------------------- C4 ------------------------------------ *)
\* C4: assignRole(P, R, by) while P has an active assignment of R fails with
\* 'User already has this role' and leaves the user_roles table as it was.
C4_SecondAssignConflicts ==
    [][\A u \in AssignPrincipals, n \in AssignRoleNames, by \in Users :
          (last'.op = "assignRole" /\ HasActiveAssignment(u, n)
              /\ AssignRoleToUser(u, n, by))
              => /\ last'.status = 400
                 /\ last'.message = "User already has this role"
                 /\ userRoles' = userRoles
                 /\ nextUserRoleId' = nextUserRoleId]_vars

\* a second assignRole was refused while the first assignment stands
C4_Witness ==
    /\ last.op = "assignRole"
    /\ last.message = "User already has this role"
    /\ \E ur \in userRoles : ur.is_active


(* -------------------------------- C5 ------------------------------------ *)
\* assignments and removals while time passes
NextClock ==
    \/ InitializeRBAC
    \/ \E name \in CustomRoleNames, ids \in PermissionIdLists : CreateRole(name, CustomDisplayName, NULL, ids)
    \/ \E u \in AssignPrincipals, n \in AssignRoleNames, by \in Users :
          AssignRoleToUser(u, n, by)
    \/ \E u \in AssignPrincipals, n \in AssignRoleNames : RemoveRoleFromUser(u, n)
    \/ Tick

SpecClock == Init /\ [][NextClock]_vars

\* the removed (inactive) assignment records of the role named roleName to P
RemovedAssignments(P, roleName) ==
    {ur \in userRoles :
        /\ ur.user_id = P
        /\ ~ur.is_active
        /\ \E r \in roles : r.name = roleName /\ r.id = ur.role_id}

\* C5: assignRole(P, R, by2) after assignRole(P, R) and removeRole(P, R) succeeds,
\* creates no record and returns the original record (same id), active again,
\* with assigned_by = by2 and assigned_at = the time of the call; (P, R) still has
\* one record.
C5_ReassignReusesRecord ==
    [][\A u \in AssignPrincipals, n \in AssignRoleNames, by \in Users :
          \A e \in RemovedAssignments(u, n) :
            (last'.op = "assignRole" /\ AssignRoleToUser(u, n, by))
              => /\ last'.status = 200
                 /\ last'.record.id = e.id
                 /\ last'.record.is_active
                 /\ last'.record.assigned_by = by
                 /\ last'.record.assigned_at = now
                 /\ last'.record.created_at = e.created_at
                 /\ userRoles' = (userRoles \ {e}) \cup {last'.record}
                 /\ nextUserRoleId' = nextUserRoleId
                 /\ Cardinality({ur \in userRoles' :
                        ur.user_id = u /\ ur.role_id = e.role_id}) = 1]_vars

\* a record created earlier by one principal is active again, re-assigned later by
\* another principal, and is the record the call returned
C5_Witness ==
    /\ last.op = "assignRole"
    /\ last.status = 200
    /\ last.record \in userRoles
    /\ last.record.is_active
    /\ last.record.assigned_at > last.record.created_at
    /\ last.record.assigned_by = "u2"
    /\ Cardinality(userRoles) = 1
    /\ nextUserRoleId = 2


(* ------------------- the store edited outside the service --------------- *)
\* permissions an operator retires by clearing permissions.is_active
RetirablePermissions == {"message.read"}

\* roles.is_active (default true) cleared on a row of the roles table
StoreDeactivateRole(id) ==
    /\ \E r \in roles : r.id = id /\ r.is_active
    /\ roles' = {IF r.id = id THEN [r EXCEPT !.is_active = FALSE] ELSE r : r \in roles}
    /\ last' = NoOutcome
    /\ gate' = NoGate
    /\ UNCHANGED <<nextRoleId, permissions, rolePermissions, userRoles, nextUserRoleId,
                   now, calls>>

\* permissions.is_active (default true) cleared on a row of the permissions table
StoreDeactivatePermission(name) ==
    /\ \E p \in permissions : p.name = name /\ p.is_active
    /\ permissions' = {IF p.name = name THEN [p EXCEPT !.is_active = FALSE] ELSE p :
                          p \in permissions}
    /\ last' = NoOutcome
    /\ gate' = NoGate
    /\ UNCHANGED <<roles, nextRoleId, rolePermissions, userRoles, nextUserRoleId,
                   now, calls>>

\* user_roles.expires_at ('Optional expiration date for temporary role
\* assignments') set on a row that has none
StoreSetExpiry(id, t) ==
    /\ \E ur \in userRoles : ur.id = id /\ ur.expires_at = <<>>
    /\ userRoles' = {IF ur.id = id THEN [ur EXCEPT !.expires_at = <<t>>] ELSE ur :
                        ur \in userRoles}
    /\ last' = NoOutcome
    /\ gate' = NoGate
    /\ UNCHANGED <<roles, nextRoleId, permissions, rolePermissions, nextUserRoleId,
                   now, calls>>

\* ids of the roles callers assign
AssignableRoleIds == {r.id : r \in {x \in roles : x.name \in AssignRoleNames}}

NextStore ==
    \/ InitializeRBAC
    \/ \E name \in CustomRoleNames, ids \in PermissionIdLists : CreateRole(name, CustomDisplayName, NULL, ids)
    \/ \E u \in AssignPrincipals, n \in AssignRoleNames : AssignRoleToUser(u, n, "u2")
    \/ \E u \in AssignPrincipals, n \in AssignRoleNames : RemoveRoleFromUser(u, n)
    \/ \E id \in AssignableRoleIds : StoreDeactivateRole(id)
    \/ \E name \in RetirablePermissions : StoreDeactivatePermission(name)

SpecStore == Init /\ [][NextStore]_vars

\* assignments that carry an expiry date, while time passes
NextExpiry ==
    \/ InitializeRBAC
    \/ \E u \in AssignPrincipals, n \in AssignRoleNames, by \in Users :
          AssignRoleToUser(u, n, by)
    \/ \E u \in AssignPrincipals, n \in AssignRoleNames : RemoveRoleFromUser(u, n)
    \/ Tick
    \/ \E ur \in userRoles, t \in 0..MaxTime : StoreSetExpiry(ur.id, t)

SpecExpiry == Init /\ [][NextExpiry]_vars

(* -------------------------------- C2 ------------------------------------ *)
\* the effective permission set of P: permissions whose active flag is true,
\* granted to a role whose active flag is true, that P holds through an active,
\* non-expired assignment
EffectivePermissions(P) ==
    {p.name : p \in {q \in permissions :
        /\ q.is_active
        /\ \E ur \in userRoles, r \in roles :
              /\ ur.user_id = P /\ ur.is_active /\ ~Expired(ur)
              /\ r.id = ur.role_id /\ r.is_active
              /\ q.name \in GrantSet(r.id)}}

\* C2: getUserPermissions(P) is exactly the effective permission set of P (active,
\* non-expired assignments; active roles; active permissions), and is empty for a
\* principal without a users row or without roles.
C2_ResolverReturnsEffectiveSet ==
    \A P \in Principals : getUserPermissions(TRUE, P) = EffectivePermissions(P)

(* -------------------------------- C3 ------------------------------------ *)
\* C3: in every store state, failing or not, hasPermission(P, X) equals
\* X \in getUserPermissions(P).
C3_ExistenceQueryAgreesWithUnion ==
    \A ok \in BOOLEAN, P \in Principals, X \in AskedPermissions :
        hasPermission(ok, P, X) <=> X \in getUserPermissions(ok, P)

\* a principal holds two roles that both grant a retired permission, and still
\* holds another permission
C3_Witness ==
    \E P \in Principals, X \in AskedPermissions, Y \in AskedPermissions :
        /\ hasPermission(TRUE, P, Y)
        /\ ~hasPermission(TRUE, P, X)
        /\ Cardinality({ur \in userRoles :
              ur.user_id = P /\ ur.is_active /\ X \in GrantSet(ur.role_id)}) = 2


(* ----------------- assignRole, one store round trip at a time ------------ *)
\* a request enters RBACService.assignRole
AssignBegin(slot, userId, roleName, assignedBy) ==
    /\ calls[slot].pc = "idle"
    /\ calls' = [calls EXCEPT ![slot] =
                    [pc |-> "findRole", userId |-> userId, roleName |-> roleName,
                     assignedBy |-> assignedBy, role_id |-> 0, existing |-> {}]]
    /\ UNCHANGED <<storeVars, now, last, gate>>

\* await Role.findOne({ where: { name: roleName, is_active: true } })
AssignFindRole(slot) ==
    LET c == calls[slot] IN
    /\ c.pc = "findRole"
    /\ UNCHANGED <<storeVars, now, gate>>
    /\ IF RoleFindOneActiveByName(c.roleName) = {}
       THEN /\ last' = Outcome("assignRole", 400, "Role not found", NULL)
            /\ calls' = [calls EXCEPT ![slot] = IdleCall]
       ELSE /\ calls' = [calls EXCEPT ![slot] =
                 [c EXCEPT !.pc = "findExisting",
                           !.role_id = (CHOOSE r \in RoleFindOneActiveByName(c.roleName) :
                                            TRUE).id]]
            /\ UNCHANGED last

\* await UserRole.findOne({ where: { user_id: userId, role_id: role.id } })
AssignFindExisting(slot) ==
    LET c == calls[slot] IN
    /\ c.pc = "findExisting"
    /\ calls' = [calls EXCEPT ![slot] =
                    [c EXCEPT !.pc = "write",
                              !.existing = UserRoleFindOne(c.userId, c.role_id)]]
    /\ UNCHANGED <<storeVars, now, last, gate>>

\* await existingUserRole.update(...) / throw / await UserRole.create(...)
AssignWrite(slot) ==
    LET c == calls[slot]
        creates == AssignCreates(c.userId, c.role_id, c.existing, c.assignedBy)
    IN  /\ c.pc = "write"
        /\ creates => nextUserRoleId <= MaxUserRoleId
        /\ userRoles' = AssignWriteTable(c.userId, c.role_id, c.existing, c.assignedBy)
        /\ nextUserRoleId' = IF creates THEN nextUserRoleId + 1 ELSE nextUserRoleId
        /\ last' = AssignWriteOutcome(c.userId, c.roleName, c.role_id, c.existing,
                                      c.assignedBy)
        /\ calls' = [calls EXCEPT ![slot] = IdleCall]
        /\ UNCHANGED <<roles, nextRoleId, permissions, rolePermissions, now, gate>>

\* concurrent requests: each slot runs assignRole step by step, interleaved with
\* the other slot and with removals and role deletions
NextRace ==
    \/ \E name \in CustomRoleNames, ids \in PermissionIdLists : CreateRole(name, CustomDisplayName, NULL, ids)
    \/ \E slot \in Slots, u \in AssignPrincipals, n \in AssignRoleNames :
          AssignBegin(slot, u, n, "u2")
    \/ \E slot \in Slots : AssignFindRole(slot)
    \/ \E slot \in Slots : AssignFindExisting(slot)
    \/ \E slot \in Slots : AssignWrite(slot)
    \/ \E u \in AssignPrincipals, n \in AssignRoleNames : RemoveRoleFromUser(u, n)
    \/ \E id \in TargetRoleIds : DeleteRole(id)

SpecRace == Init /\ [][NextRace]_vars

(* -------------------------------- C6 ------------------------------------ *)
\* C6: whatever the interleaving of concurrent assignRole calls, user_roles
\* holds at most one record per (principal, role) pair, hence at most one active
\* assignment of a role to a principal.
C6_OneRecordPerPair ==
    \A a \in userRoles, b \in userRoles :
        (a.user_id = b.user_id /\ a.role_id = b.role_id) => a = b

\* two calls for the same pair both found no existing record; the first created
\* the record and the unique index rejected the second call's insert
C6_Witness ==
    /\ last.op = "assignRole"
    /\ last.message = "Validation error"
    /\ Cardinality(userRoles) = 1


(* ------------------------------ middleware ------------------------------ *)
\* req.user as authenticateToken leaves it: the principal id and the legacy
\* scalar role; an id of NULL stands for a request without req.user or req.user.id
NoUser == [id |-> NULL, rol |-> NULL]

ReqUsers ==
    {NoUser,
     [id |-> "u1", rol |-> "user"],
     [id |-> "u2", rol |-> "admin"],
     [id |-> "u2", rol |-> "super_admin"]}

\* role lists and permission names the routes pass to the gates
RoleArrays == {{"user", "admin"}, {"guide"}, {"super_admin", "admin"}}

GatePermissions == {"route.manage", "message.read"}

\* rows of a resource table with an owner column (personalized_messages)
PersonalizedMessages ==
    {[id |-> "r1", created_by |-> "u1"], [id |-> "r2", created_by |-> "u2"]}

\* req.params.id: absent, the id of no row, the id of a row
ResourceIdParams == {NULL, "r0", "r1", "r2"}

\* req.body[ownerField]: absent or a user id the caller wrote
BodyOwners == {NULL, "u1", "u2"}

\* Model.findByPk(resourceId)
ResourceFindByPk(resourceId) == {m \in PersonalizedMessages : m.id = resourceId}

\* return next(), with req.resource when the gate loaded it
Allow(resource) ==
    [next |-> TRUE, status |-> 0, message |-> NULL, type |-> NULL, code |-> NULL,
     required |-> {}, resource |-> resource]

\* return res.status(status).json({ success: false, message, error })
Deny(status, message, type, code, required) ==
    [next |-> FALSE, status |-> status, message |-> message, type |-> type,
     code |-> code, required |-> required, resource |-> {}]

\* mutant of RequirePermissionResponse: the legacy admin role satisfies the gate
PermissionGateLegacyAdmin(storeOk, user, permission, allowOwner, paramsId, bodyOwner) ==
    IF user.id = NULL
    THEN Deny(401, "Authentication required", "AuthenticationError",
              "AUTHENTICATION_REQUIRED", {})
    ELSE IF hasPermission(storeOk, user.id, permission) \/ user.rol = "admin"
    THEN Allow({})
    ELSE IF allowOwner /\ paramsId # NULL /\ bodyOwner = user.id
    THEN Allow({})
    ELSE Deny(403, "Insufficient permissions", "AuthorizationError",
              "PERMISSION_DENIED", {permission})

\* requirePermission(permission, { allowOwner, ownerField })
RequirePermissionResponse(storeOk, user, permission, allowOwner, paramsId, bodyOwner) ==
    IF user.id = NULL
    THEN Deny(401, "Authentication required", "AuthenticationError",
              "AUTHENTICATION_REQUIRED", {})
    ELSE IF hasPermission(storeOk, user.id, permission)
    THEN Allow({})
    ELSE IF allowOwner /\ paramsId # NULL /\ bodyOwner = user.id
    THEN Allow({})
    ELSE Deny(403, "Insufficient permissions", "AuthorizationError",
              "PERMISSION_DENIED", {permission})

\* mutant of RequireRoleResponse: the legacy role and the RBAC role are both required
RequireRoleResponseNeedsBoth(storeOk, user, roleArray) ==
    IF user.id = NULL
    THEN Deny(401, "Authentication required", "AuthenticationError",
              "AUTHENTICATION_REQUIRED", {})
    ELSE IF ~storeOk
    THEN Deny(500, "Internal server error during role check", NULL, NULL, {})
    ELSE IF /\ user.rol # NULL /\ user.rol \in roleArray
            /\ UserFindByPk(user.id)
            /\ \E role \in IncludedRoles(user.id) : role.name \in roleArray
    THEN Allow({})
    ELSE Deny(403, "Insufficient role permissions", "AuthorizationError",
              "ROLE_DENIED", roleArray)

\* requireRole(roles); the result of its getUserPermissions call is not used
RequireRoleResponse(storeOk, user, roleArray) ==
    IF user.id = NULL
    THEN Deny(401, "Authentication required", "AuthenticationError",
              "AUTHENTICATION_REQUIRED", {})
    ELSE IF user.rol # NULL /\ user.rol \in roleArray
    THEN Allow({})
    ELSE IF ~storeOk
    THEN Deny(500, "Internal server error during role check", NULL, NULL, {})
    ELSE IF /\ UserFindByPk(user.id)
            /\ \E role \in IncludedRoles(user.id) : role.name \in roleArray
    THEN Allow({})
    ELSE Deny(403, "Insufficient role permissions", "AuthorizationError",
              "ROLE_DENIED", roleArray)

\* mutant of RequireOwnershipResponse: the admin bypass does not look at allowAdmin
OwnershipGateAlwaysAdmin(storeOk, loadOk, user, resourceModel, resourceId, allowAdmin) ==
    IF user.id = NULL
    THEN Deny(401, "Authentication required", NULL, NULL, {})
    ELSE IF user.rol = "admin" \/ user.rol = "super_admin"
    THEN Allow({})
    ELSE IF hasPermission(storeOk, user.id, "system.admin")
    THEN Allow({})
    ELSE IF ~resourceModel \/ resourceId = NULL
    THEN Deny(400, "Invalid resource configuration", NULL, NULL, {})
    ELSE IF ~loadOk
    THEN Deny(500, "Internal server error during ownership check", NULL, NULL, {})
    ELSE IF ResourceFindByPk(resourceId) = {}
    THEN Deny(404, "Resource not found", NULL, NULL, {})
    ELSE IF (CHOOSE m \in ResourceFindByPk(resourceId) : TRUE).created_by # user.id
    THEN Deny(403, "Access denied - you do not own this resource",
              "AuthorizationError", "OWNERSHIP_DENIED", {})
    ELSE Allow(ResourceFindByPk(resourceId))

\* requireOwnership({ resourceModel, resourceIdParam, ownerField, allowAdmin });
\* storeOk: the store answers hasPermission's query, loadOk: it answers
\* Model.findByPk; resourceModel: the option names a model
RequireOwnershipResponse(storeOk, loadOk, user, resourceModel, resourceId, allowAdmin) ==
    IF user.id = NULL
    THEN Deny(401, "Authentication required", NULL, NULL, {})
    ELSE IF allowAdmin /\ (user.rol = "admin" \/ user.rol = "super_admin")
    THEN Allow({})
    ELSE IF allowAdmin /\ hasPermission(storeOk, user.id, "system.admin")
    THEN Allow({})
    ELSE IF ~resourceModel \/ resourceId = NULL
    THEN Deny(400, "Invalid resource configuration", NULL, NULL, {})
    ELSE IF ~loadOk
    THEN Deny(500, "Internal server error during ownership check", NULL, NULL, {})
    ELSE IF ResourceFindByPk(resourceId) = {}
    THEN Deny(404, "Resource not found", NULL, NULL, {})
    ELSE IF (CHOOSE m \in ResourceFindByPk(resourceId) : TRUE).created_by # user.id
    THEN Deny(403, "Access denied - you do not own this resource",
              "AuthorizationError", "OWNERSHIP_DENIED", {})
    ELSE Allow(ResourceFindByPk(resourceId))

\* a request reaches a route guarded by requirePermission
RequirePermission(storeOk, user, permission, allowOwner, paramsId, bodyOwner) ==
    /\ gate' = [kind |-> "requirePermission", storeOk |-> storeOk, user |-> user,
                permission |-> permission, allowOwner |-> allowOwner,
                paramsId |-> paramsId, bodyOwner |-> bodyOwner,
                res |-> RequirePermissionResponse(storeOk, user, permission,
                                                  allowOwner, paramsId, bodyOwner)]
    /\ last' = NoOutcome
    /\ UNCHANGED <<storeVars, now, calls>>

\* a request reaches a route guarded by requireRole
RequireRole(storeOk, user, roleArray) ==
    /\ gate' = [kind |-> "requireRole", storeOk |-> storeOk, user |-> user,
                roleArray |-> roleArray,
                res |-> RequireRoleResponse(storeOk, user, roleArray)]
    /\ last' = NoOutcome
    /\ UNCHANGED <<storeVars, now, calls>>

\* a request reaches a route guarded by requireOwnership
RequireOwnership(storeOk, loadOk, user, resourceModel, resourceId, allowAdmin) ==
    /\ gate' = [kind |-> "requireOwnership", storeOk |-> storeOk, loadOk |-> loadOk,
                user |-> user, resourceModel |-> resourceModel,
                resourceId |-> resourceId, allowAdmin |-> allowAdmin,
                res |-> RequireOwnershipResponse(storeOk, loadOk, user, resourceModel,
                                                 resourceId, allowAdmin)]
    /\ last' = NoOutcome
    /\ UNCHANGED <<storeVars, now, calls>>

\* request shapes of the permission gate: without allowOwner the resource id
\* and the body are not read
PermissionRequests ==
    {<<FALSE, NULL, owner>> : owner \in {NULL, "u2"}}
        \cup {<<TRUE, id, owner>> : id \in {NULL, "r1", "r2"}, owner \in BodyOwners}

\* option shapes of the ownership gate: a model is named, or none is
OwnershipTargets ==
    {<<TRUE, id>> : id \in ResourceIdParams} \cup {<<FALSE, "r1">>}

\* requests to routes guarded by requirePermission, between administrative
\* requests that seed the defaults, create a custom role holding system.admin
\* and assign roles to u1
NextPermissionGate ==
    \/ InitializeRBAC
    \/ CreateRole("editor", CustomDisplayName, NULL, {"message.read", "system.admin"})
    \/ \E n \in AssignRoleNames : AssignRoleToUser("u1", n, "u2")
    \/ \E n \in AssignRoleNames : RemoveRoleFromUser("u1", n)
    \/ \E ok \in BOOLEAN, user \in ReqUsers, X \in GatePermissions,
          shape \in PermissionRequests :
          RequirePermission(ok, user, X, shape[1], shape[2], shape[3])

SpecPermissionGate == Init /\ [][NextPermissionGate]_vars

\* requests to routes guarded by requireRole, between the same administrative
\* requests
NextRoleGate ==
    \/ InitializeRBAC
    \/ CreateRole("editor", CustomDisplayName, NULL, {"message.read", "system.admin"})
    \/ \E n \in AssignRoleNames : AssignRoleToUser("u1", n, "u2")
    \/ \E n \in AssignRoleNames : RemoveRoleFromUser("u1", n)
    \/ \E ok \in BOOLEAN, user \in ReqUsers, roleArray \in RoleArrays :
          RequireRole(ok, user, roleArray)

SpecRoleGate == Init /\ [][NextRoleGate]_vars

\* requests to routes guarded by requireOwnership, between the same
\* administrative requests
NextOwnershipGate ==
    \/ InitializeRBAC
    \/ CreateRole("editor", CustomDisplayName, NULL, {"message.read", "system.admin"})
    \/ \E n \in AssignRoleNames : AssignRoleToUser("u1", n, "u2")
    \/ \E n \in AssignRoleNames : RemoveRoleFromUser("u1", n)
    \/ \E ok \in BOOLEAN, loadOk \in BOOLEAN, user \in ReqUsers,
          target \in OwnershipTargets, allowAdmin \in BOOLEAN :
          RequireOwnership(ok, loadOk, user, target[1], target[2], allowAdmin)

SpecOwnershipGate == Init /\ [][NextOwnershipGate]_vars


(* ------------------- vocabulary of the claims on gates ------------------ *)
\* the request at hand carries an authenticated principal
Authenticated == gate.user.id # NULL

\* P has no assignment record at all
NoAssignments(P) == \A ur \in userRoles : ur.user_id # P

\* the stored state gives P the permission X: an active assignment of a role
\* whose grant set holds X
HoldsPermission(P, X) ==
    \E ur \in userRoles : ur.user_id = P /\ ur.is_active /\ X \in GrantSet(ur.role_id)

\* the stored resource with that id exists and its owner column is P
OwnsStoredResource(P, resourceId) ==
    \E m \in PersonalizedMessages : m.id = resourceId /\ m.created_by = P

StoredResourceExists(resourceId) == \E m \in PersonalizedMessages : m.id = resourceId

(* -------------------------------- C7 ------------------------------------ *)
\* C7: requireRole(roleNames) never lets an authenticated principal through
\* unless the legacy role is in roleNames or the principal has an active
\* assignment of a role named in roleNames; a legacy match lets the principal
\* through by itself; and while the store answers, the principal passes exactly
\* in those two cases and is otherwise denied with 403 AuthorizationError
\* carrying the required roles.
C7_RoleGateLegacyOrAssigned ==
    (gate.kind = "requireRole" /\ Authenticated) =>
        LET legacy == gate.user.rol \in gate.roleArray
            assigned == \E n \in gate.roleArray : HasActiveAssignment(gate.user.id, n)
        IN  /\ gate.res.next => (legacy \/ assigned)
            /\ legacy => gate.res.next
            /\ gate.storeOk =>
                  /\ gate.res.next <=> (legacy \/ assigned)
                  /\ ~gate.res.next =>
                        /\ gate.res.status = 403
                        /\ gate.res.type = "AuthorizationError"
                        /\ gate.res.required = gate.roleArray

\* legacy role 'user', no assignment record at all, requireRole(['user','admin'])
\* lets the request through
C7_Witness ==
    /\ gate.kind = "requireRole"
    /\ gate.user = [id |-> "u1", rol |-> "user"]
    /\ gate.roleArray = {"user", "admin"}
    /\ NoAssignments("u1")
    /\ gate.res.next

(* -------------------------------- C8 ------------------------------------ *)
\* C8: requirePermission(X) without allowOwner answers 401 AuthenticationError
\* to a request without principal, lets the principal through exactly when
\* hasPermission(principal, X) is true, and otherwise answers 403
\* AuthorizationError naming X; a principal without any assignment is denied
\* whatever the legacy role.
C8_PermissionGateOutcomes ==
    (gate.kind = "requirePermission" /\ ~gate.allowOwner) =>
        IF ~Authenticated
        THEN /\ ~gate.res.next
             /\ gate.res.status = 401
             /\ gate.res.type = "AuthenticationError"
        ELSE /\ gate.res.next <=> hasPermission(gate.storeOk, gate.user.id, gate.permission)
             /\ gate.res.next => HoldsPermission(gate.user.id, gate.permission)
             /\ (gate.storeOk /\ HoldsPermission(gate.user.id, gate.permission))
                    => gate.res.next
             /\ ~gate.res.next =>
                   /\ gate.res.status = 403
                   /\ gate.res.type = "AuthorizationError"
                   /\ gate.res.required = {gate.permission}
             /\ NoAssignments(gate.user.id) => ~gate.res.next

\* legacy role 'admin', no assignment record at all: requirePermission
\* ('route.manage') answers 403 naming the permission
C8_Witness ==
    /\ gate.kind = "requirePermission"
    /\ ~gate.allowOwner
    /\ gate.user = [id |-> "u2", rol |-> "admin"]
    /\ gate.permission = "route.manage"
    /\ NoAssignments("u2")
    /\ gate.res.status = 403
    /\ gate.res.required = {"route.manage"}

(* -------------------------------- C9 ------------------------------------ *)
\* C9: with allowOwner and a resource id in the request, requirePermission lets
\* a principal through only if the principal holds the permission or the stored
\* resource's owner column equals the principal id, whatever the body contains.
C9_OwnerOverrideNeedsStoredOwner ==
    (gate.kind = "requirePermission" /\ gate.allowOwner /\ Authenticated
        /\ gate.paramsId # NULL /\ gate.res.next)
        => \/ HoldsPermission(gate.user.id, gate.permission)
           \/ OwnsStoredResource(gate.user.id, gate.paramsId)

(* -------------------------------- C10 ----------------------------------- *)
\* the admin bypass of the ownership gate applies to the request at hand
AdminBypass ==
    /\ gate.allowAdmin
    /\ \/ gate.user.rol \in {"admin", "super_admin"}
       \/ HoldsPermission(gate.user.id, "system.admin")

\* C10 as stated: requireOwnership lets an authenticated principal through
\* exactly when the admin bypass applies or the stored resource's owner is the
\* principal, answers 404 whenever the resource does not exist, and answers 403
\* AuthorizationError when it denies a request for a resource owned by someone
\* else (requests that name a model and a resource id, store answering).
C10_OwnershipGateAsStated ==
    (gate.kind = "requireOwnership" /\ Authenticated /\ gate.storeOk /\ gate.loadOk
        /\ gate.resourceModel /\ gate.resourceId # NULL) =>
        /\ gate.res.next <=>
              (AdminBypass \/ OwnsStoredResource(gate.user.id, gate.resourceId))
        /\ ~StoredResourceExists(gate.resourceId) => gate.res.status = 404
        /\ (StoredResourceExists(gate.resourceId)
               /\ ~OwnsStoredResource(gate.user.id, gate.resourceId)
               /\ ~gate.res.next)
              => (gate.res.status = 403 /\ gate.res.type = "AuthorizationError")

\* C10 amended: requireOwnership never lets an authenticated principal through
\* unless the admin bypass applies or the stored resource's owner is the
\* principal, so with allowAdmin false an admin gets no bypass; while the store
\* answers, the bypass always lets through, before the resource is loaded and
\* even when it does not exist; a request that names a model and a resource id
\* passes exactly in those two cases, and when the bypass does not apply it is
\* answered 404 if the resource does not exist and 403 AuthorizationError if it
\* is owned by someone else.
C10_OwnershipGateUnlessBypassed ==
    (gate.kind = "requireOwnership" /\ Authenticated) =>
        /\ gate.res.next =>
              (AdminBypass \/ OwnsStoredResource(gate.user.id, gate.resourceId))
        /\ (gate.storeOk /\ AdminBypass) => gate.res.next
        /\ (gate.storeOk /\ gate.loadOk /\ gate.resourceModel /\ gate.resourceId # NULL) =>
              /\ gate.res.next <=>
                    (AdminBypass \/ OwnsStoredResource(gate.user.id, gate.resourceId))
              /\ (~AdminBypass /\ ~StoredResourceExists(gate.resourceId))
                    => gate.res.status = 404
              /\ (~AdminBypass /\ StoredResourceExists(gate.resourceId)
                     /\ ~OwnsStoredResource(gate.user.id, gate.resourceId))
                    => (gate.res.status = 403 /\ gate.res.type = "AuthorizationError")

\* a principal with legacy role 'user' who holds system.admin through an
\* assignment passes with allowAdmin although the resource does not exist
C10_Witness ==
    /\ gate.kind = "requireOwnership"
    /\ gate.user = [id |-> "u1", rol |-> "user"]
    /\ gate.allowAdmin
    /\ gate.resourceModel
    /\ gate.resourceId = "r0"
    /\ HoldsPermission("u1", "system.admin")
    /\ gate.res.next


(* --------------------------- role registry runs ------------------------- *)
\* role names callers pass to assignRole / removeRole in the registry runs
RegistryRoleNames == {"editor", "moderator"}

\* <<name, display_name, description>> of the updateRole requests (NULL:
\* undefined)
UpdateFields ==
    {<<NULL, NULL, NULL>>, <<"guide", NULL, NULL>>, <<NULL, "Renamed role", "Revised">>}

\* permission_ids lists of the createRole requests in the registry runs
CreateIdLists == {{}, {"message.read", "system.admin"}}

\* permission_ids lists of the updateRole requests that define the field
UpdateIdLists == {{}, {"message.read"}}

\* the registry operations with every field of the update request varied,
\* between bootstrap runs, assignments and removals
NextRegistry ==
    \/ InitializeRBAC
    \/ \E ids \in CreateIdLists : CreateRole("editor", CustomDisplayName, NULL, ids)
    \/ \E id \in TargetRoleIds, f \in UpdateFields :
          UpdateRole(id, f[1], f[2], f[3], FALSE, {})
    \/ \E id \in TargetRoleIds, f \in UpdateFields, ids \in UpdateIdLists :
          UpdateRole(id, f[1], f[2], f[3], TRUE, ids)
    \/ \E id \in TargetRoleIds : DeleteRole(id)
    \/ \E n \in RegistryRoleNames : AssignRoleToUser("u1", n, "u2")
    \/ \E n \in RegistryRoleNames : RemoveRoleFromUser("u1", n)

SpecRegistry == Init /\ [][NextRegistry]_vars

\* the role with that id is a system role / a custom role
IsSystemRole(id) == \E r \in roles : r.id = id /\ r.is_system

IsCustomRole(id) == \E r \in roles : r.id = id /\ ~r.is_system

(* -------------------------------- C11 ----------------------------------- *)
\* C11: whatever operation runs, every role with is_system = true is still
\* there afterwards under the same name, and deleteRole on a system role answers
\* 'Cannot delete system roles' and deletes nothing, with or without active
\* assignments of the role.
C11_SystemRolesStay ==
    [][/\ \A r \in roles : r.is_system =>
              \E q \in roles' : q.id = r.id /\ q.name = r.name /\ q.is_system
       /\ \A id \in TargetRoleIds :
              (last'.op = "deleteRole" /\ IsSystemRole(id) /\ DeleteRole(id)) =>
                  /\ last'.status = 400
                  /\ last'.message = "Cannot delete system roles"
                  /\ roles' = roles
                  /\ userRoles' = userRoles
                  /\ rolePermissions' = rolePermissions]_vars

\* deleteRole was refused for a system role while the system role 'moderator'
\* has an active assignment
C11_Witness ==
    /\ last.op = "deleteRole"
    /\ last.message = "Cannot delete system roles"
    /\ \E r \in roles : r.name = "moderator" /\ r.is_system /\ ActiveUserCount(r.id) > 0

(* -------------------------------- C12 ----------------------------------- *)
\* C12: updateRole on a system role answers 'Cannot modify system roles' and
\* leaves the roles table (name, display_name, description) and the grant rows
\* as they were, whatever fields the request defines.
C12_SystemRoleUpdateRefused ==
    [][last'.op = "updateRole" =>
       \/ /\ last'.status = 400
          /\ last'.message = "Cannot modify system roles"
          /\ roles' = roles
          /\ rolePermissions' = rolePermissions
       \/ ~\E id \in {i \in TargetRoleIds : IsSystemRole(i)}, f \in UpdateFields,
             hasIds \in BOOLEAN, ids \in UpdateIdLists :
             UpdateRole(id, f[1], f[2], f[3], hasIds, ids)]_vars

\* updateRole was refused and the system role 'moderator' still has its default
\* data and grants
C12_Witness ==
    /\ last.op = "updateRole"
    /\ last.message = "Cannot modify system roles"
    /\ \E r \in roles :
          /\ r.name = "moderator" /\ r.is_system
          /\ r.display_name = "Content Moderator"
          /\ GrantSet(r.id) = ModeratorPermissions

(* -------------------------------- C13 ----------------------------------- *)
\* C13: deleteRole on a custom role that has n > 0 active assignments answers
\* 'Cannot delete role' with the count n and changes nothing; with no active
\* assignment it succeeds and the role is gone, also when removed (inactive)
\* assignment records still referenced it.
C13_DeleteCustomRole ==
    [][last'.op = "deleteRole" =>
       \A id \in {i \in TargetRoleIds : IsCustomRole(i)} :
          DeleteRole(id) =>
              LET n == Cardinality({ur \in userRoles : ur.role_id = id /\ ur.is_active})
              IN  IF n > 0
                  THEN /\ last'.status = 400
                       /\ last'.message = "Cannot delete role: users assigned"
                       /\ last'.record = [userCount |-> n]
                       /\ roles' = roles
                       /\ userRoles' = userRoles
                       /\ rolePermissions' = rolePermissions
                  ELSE /\ last'.status = 200
                       /\ \A r \in roles' : r.id # id]_vars

\* a custom role was deleted after its only assignment had been removed: one
\* assignment record was created, and none is left
C13_Witness ==
    /\ last.op = "deleteRole"
    /\ last.status = 200
    /\ nextUserRoleId = 2
    /\ userRoles = {}

\* P's active assignments are all of the role with that id, and there is one
HoldsOnlyRole(P, id) ==
    /\ \E ur \in userRoles : ur.user_id = P /\ ur.is_active /\ ur.role_id = id
    /\ \A ur \in userRoles : (ur.user_id = P /\ ur.is_active) => ur.role_id = id

\* the supplied permission ids that name an active permission
SuppliedActive(ids) == {n \in ids : \E p \in permissions : p.name = n /\ p.is_active}

(* -------------------------------- C14 ----------------------------------- *)
\* C14: a successful updateRole with a permission list on a custom role leaves
\* the role with exactly the supplied active permissions as its grant set, and
\* every principal who holds only that role no longer has any permission that
\* was granted before and is not in the list.
C14_PermissionListReplacesGrants ==
    [][(last'.op = "updateRole" /\ last'.status = 200) =>
       \A id \in {i \in TargetRoleIds : IsCustomRole(i)}, f \in UpdateFields,
          ids \in UpdateIdLists :
          UpdateRole(id, f[1], f[2], f[3], TRUE, ids) =>
              /\ GrantSet(id)' = SuppliedActive(ids)
              /\ \A P \in Users, X \in GrantSet(id) \ ids :
                    HoldsOnlyRole(P, id) => ~hasPermission(TRUE, P, X)']_vars

\* after a successful updateRole a custom role grants message.read only, and a
\* principal who holds only that role has message.read and not system.admin
C14_Witness ==
    /\ last.op = "updateRole"
    /\ last.status = 200
    /\ \E r \in roles, P \in Users :
          /\ ~r.is_system
          /\ GrantSet(r.id) = {"message.read"}
          /\ HoldsOnlyRole(P, r.id)
          /\ hasPermission(TRUE, P, "message.read")
          /\ ~hasPermission(TRUE, P, "system.admin")

(* -------------------------------- C15 ----------------------------------- *)
\* ids of the system role named 'moderator' that bootstrap created
SystemModeratorIds == {r.id : r \in {x \in roles : x.name = "moderator" /\ x.is_system}}

\* C15 as stated: after bootstrap, updateRole of 'moderator' with the permission
\* list ['message.read'] succeeds and replaces its grants, and no principal who
\* holds only 'moderator' has a removed permission afterwards.
C15_ModeratorGrantsReplaced ==
    [][last'.op = "updateRole" =>
       \A id \in SystemModeratorIds :
          UpdateRole(id, NULL, NULL, NULL, TRUE, {"message.read"}) =>
              /\ last'.status = 200
              /\ GrantSet(id)' = {"message.read"}
              /\ \A P \in Users, X \in ModeratorPermissions \ {"message.read"} :
                    HoldsOnlyRole(P, id) => ~hasPermission(TRUE, P, X)']_vars

\* C15 amended: after bootstrap 'moderator' is a system role whose grant set is
\* its ten default permissions; updateRole of 'moderator' with the permission
\* list ['message.read'] answers 'Cannot modify system roles', the tables and
\* the grant set stay as they were, and every principal who holds only
\* 'moderator' still has each of the nine other permissions.
C15_ModeratorUpdateRefused ==
    [][last'.op = "updateRole" =>
       \A id \in SystemModeratorIds :
          UpdateRole(id, NULL, NULL, NULL, TRUE, {"message.read"}) =>
              /\ GrantSet(id) = ModeratorPermissions
              /\ last'.status = 400
              /\ last'.message = "Cannot modify system roles"
              /\ UNCHANGED storeVars
              /\ GrantSet(id)' = ModeratorPermissions
              /\ \A P \in Users :
                    HoldsOnlyRole(P, id) =>
                        \A X \in ModeratorPermissions \ {"message.read"} :
                            hasPermission(TRUE, P, X)']_vars

\* updateRole was refused while a principal who holds only the system role
\* 'moderator' still has message.update, one of its ten default grants
C15_Witness ==
    /\ last.op = "updateRole"
    /\ last.message = "Cannot modify system roles"
    /\ \E id \in SystemModeratorIds, P \in Users :
          /\ HoldsOnlyRole(P, id)
          /\ Cardinality(GrantSet(id)) = 10
          /\ hasPermission(TRUE, P, "message.update")

(* -------------------------------- C16 ----------------------------------- *)
\* C16: initializeRBAC run right after initializeRBAC leaves the roles, the
\* permissions and the grant rows exactly as the first run left them, and no
\* run of initializeRBAC removes a custom role.
C16_BootstrapIdempotent ==
    [][(last'.op = "initializeRBAC" /\ InitializeRBAC) =>
          /\ last.op = "initializeRBAC" =>
                /\ roles' = roles
                /\ permissions' = permissions
                /\ rolePermissions' = rolePermissions
                /\ nextRoleId' = nextRoleId
          /\ \A r \in roles : ~r.is_system => \E q \in roles' : q.id = r.id /\ ~q.is_system]_vars

\* the six system roles have ids 1..6, a custom role was created after them
\* (id 7), and the last operation was initializeRBAC again
C16_Witness ==
    /\ last.op = "initializeRBAC"
    /\ {r.id : r \in {x \in roles : x.is_system}} = 1..6
    /\ \E r \in roles : ~r.is_system /\ r.id = 7

(* -------------------------------- C17 ----------------------------------- *)
\* C17: initializeRBAC, run in any state, leaves every assignment record, every
\* custom role and every custom role's grant set unchanged.
C17_BootstrapKeepsCustomState ==
    [][(last'.op = "initializeRBAC" /\ InitializeRBAC) =>
          /\ userRoles' = userRoles
          /\ \A r \in roles : ~r.is_system =>
                /\ r \in roles'
                /\ GrantSet(r.id)' = GrantSet(r.id)]_vars

(* -------------------------------- C18 ----------------------------------- *)
\* the grant set of the role with that name
GrantSetOf(roleName) ==
    UNION {GrantSet(r.id) : r \in {x \in roles : x.name = roleName}}

\* the default policy matrix: 6 system roles, 33 active permissions, 84 grants
DefaultPolicyMatrix ==
    /\ Cardinality(roles) = 6
    /\ {r.name : r \in roles} =
          {"super_admin", "admin", "guide", "moderator", "tourist", "user"}
    /\ \A r \in roles : r.is_system /\ r.is_active
    /\ Cardinality(permissions) = 33
    /\ \A p \in permissions : p.is_active
    /\ Cardinality(rolePermissions) = 84
    /\ GrantSetOf("super_admin") = {p.name : p \in permissions}
    /\ GrantSetOf("admin") = AdminPermissions /\ Cardinality(AdminPermissions) = 19
    /\ GrantSetOf("guide") = GuidePermissions /\ Cardinality(GuidePermissions) = 13
    /\ GrantSetOf("moderator") = ModeratorPermissions
    /\ Cardinality(ModeratorPermissions) = 10
    /\ GrantSetOf("tourist") = TouristPermissions /\ Cardinality(TouristPermissions) = 6
    /\ GrantSetOf("user") = UserPermissions /\ Cardinality(UserPermissions) = 3

\* C18: initializeRBAC on an empty store (no role, no permission, no grant)
\* leaves exactly the default policy matrix: 6 system roles, 33 active
\* permissions, 84 grants, super_admin holding the whole catalog and every other
\* role its hardcoded list.
C18_BootstrapOnEmptyStore ==
    [][(last'.op = "initializeRBAC" /\ roles = {} /\ permissions = {}
          /\ rolePermissions = {} /\ InitializeRBAC) => DefaultPolicyMatrix']_vars

\* initializeRBAC has run on a store emptied by deleting the custom role created
\* before: the system roles have ids 2..7 and the matrix is in place
C18_Witness ==
    /\ last.op = "initializeRBAC"
    /\ {r.id : r \in roles} = 2..7
    /\ Cardinality(rolePermissions) = 84

(* -------------------------------- C19 ----------------------------------- *)
\* what removeRole(P, R) answers and writes, by the state it is called in
RemoveRoleEffect(P, R) ==
    IF \A r \in roles : r.name # R
    THEN /\ last'.status = 400 /\ last'.message = "Role not found"
         /\ userRoles' = userRoles
    ELSE IF ~HasActiveAssignment(P, R)
    THEN /\ last'.status = 400 /\ last'.message = "User does not have this role"
         /\ userRoles' = userRoles
    ELSE /\ last'.status = 200
         /\ \E ur \in userRoles :
               /\ ur.user_id = P /\ ur.is_active
               /\ \E r \in roles : r.name = R /\ r.id = ur.role_id
               /\ [ur EXCEPT !.is_active = FALSE] \in userRoles'
               /\ userRoles' \ {[ur EXCEPT !.is_active = FALSE]} = userRoles \ {ur}
         /\ Cardinality(userRoles') = Cardinality(userRoles)

\* C19: removeRole(P, R) fails with "Role not found" when no role is named R,
\* fails with "User does not have this role" when P has no active assignment of
\* R (an already removed one included), and otherwise only sets that record's
\* active flag to false: no record is deleted and every other record is unchanged.
C19_RemoveRoleOnlyFlipsFlag ==
    [][last'.op = "removeRole" =>
          \A P \in AssignPrincipals, R \in AssignRoleNames :
              RemoveRoleFromUser(P, R) => RemoveRoleEffect(P, R)]_vars

\* a removal succeeded: the removed record is still stored, inactive, next to
\* another record of the same principal that is still active
C19_Witness ==
    /\ last.op = "removeRole" /\ last.status = 200
    /\ \E ur \in userRoles, other \in userRoles :
          /\ ~ur.is_active /\ other.is_active
          /\ ur.user_id = other.user_id /\ ur.role_id # other.role_id

(* -------------------------------- C20 ----------------------------------- *)
\* no active role is named roleName: there is none, or it is inactive
NoActiveRoleNamed(roleName) == \A r \in roles : r.name = roleName => ~r.is_active

\* C20: assignRole(P, roleName, by) on a name that no role bears, or that only
\* an inactive role bears, fails with "Role not found" and neither creates nor
\* reactivates (nor otherwise rewrites) an assignment record.
C20_AssignNeedsActiveRole ==
    [][last'.op = "assignRole" =>
          \A P \in AssignPrincipals, n \in AssignRoleNames :
              (NoActiveRoleNamed(n) /\ AssignRoleToUser(P, n, "u2")) =>
                  /\ last'.status = 400 /\ last'.message = "Role not found"
                  /\ userRoles' = userRoles
                  /\ nextUserRoleId' = nextUserRoleId]_vars

\* every assignable name is borne by a role, so the assignRole just refused
\* named an inactive role; a removed record of that role is still inactive
C20_Witness ==
    /\ last.op = "assignRole" /\ last.message = "Role not found"
    /\ \A n \in AssignRoleNames : \E r \in roles : r.name = n
    /\ \E r \in roles, ur \in userRoles :
          /\ ~r.is_active /\ ur.role_id = r.id /\ ~ur.is_active
          /\ \A q \in roles : q.id # r.id => q.is_active

(* -------------------------------- C21 ----------------------------------- *)
\* every assignment of P to a role that grants X has an expiry date in the past
OnlyExpiredAssignmentsGrant(P, X) ==
    /\ \E ur \in userRoles : ur.user_id = P /\ ur.is_active /\ X \in GrantSet(ur.role_id)
    /\ \A ur \in userRoles :
          (ur.user_id = P /\ X \in GrantSet(ur.role_id)) => Expired(ur)

\* C21: an assignment whose expiry date has passed confers nothing while its
\* active flag is still true: for a principal whose only assignments of the roles
\* granting X are expired, hasPermission(P, X) is false and getUserPermissions(P)
\* does not list X.
C21_ExpiredAssignmentConfersNothing ==
    \A P \in Principals, X \in AskedPermissions :
        OnlyExpiredAssignmentsGrant(P, X) =>
            /\ ~hasPermission(TRUE, P, X)
            /\ X \notin getUserPermissions(TRUE, P)

(* -------------------------------- C22 ----------------------------------- *)
\* the permission named n is stored with its active flag cleared
Retired(n) == \E p \in permissions : p.name = n /\ ~p.is_active

\* the resolver gives n to nobody
NobodyResolves(n) ==
    \A P \in Principals :
        /\ ~hasPermission(TRUE, P, n)
        /\ n \notin getUserPermissions(TRUE, P)

\* C22: from the step that clears a permission's active flag on, whatever runs
\* next (initializeRBAC included), hasPermission is false for that permission
\* for every principal and getUserPermissions does not list it, although grant
\* rows for it may still exist.
C22_RetiredPermissionStaysDenied ==
    [][\A n \in RetirablePermissions :
          (Retired(n) \/ StoreDeactivatePermission(n)) => NobodyResolves(n)']_vars

\* initializeRBAC has just run again on a store where message.read is retired:
\* the permission is still inactive, a role assigned to u1 still has a grant row
\* for it, and u1 still resolves another permission
C22_Witness ==
    /\ last.op = "initializeRBAC"
    /\ Retired("message.read")
    /\ \E ur \in userRoles :
          /\ ur.user_id = "u1" /\ ur.is_active
          /\ "message.read" \in GrantSet(ur.role_id)
    /\ getUserPermissions(TRUE, "u1") # {}

(* -------------------------------- C23 ----------------------------------- *)
\* C23: when the store fails during the check of requirePermission, the gate
\* calls next() only if the stored state justifies it, which (the permission
\* being unreadable) leaves the owner of the stored resource on a gate with
\* allowOwner; every other request is not let through.
C23_StoreFailureNeverAllows ==
    (gate.kind = "requirePermission" /\ Authenticated /\ ~gate.storeOk) =>
        (gate.res.next =>
            (gate.allowOwner /\ OwnsStoredResource(gate.user.id, gate.paramsId)))

(* -------------------------------- C24 ----------------------------------- *)
\* C24: when the store fails during the check of requirePermission and the
\* request is not let through, it ends with the internal error response (500),
\* not with the permission-denied response (403 AuthorizationError
\* PERMISSION_DENIED).
C24_StoreFailureIsInternalError ==
    (gate.kind = "requirePermission" /\ Authenticated /\ ~gate.storeOk
        /\ ~gate.res.next) =>
        /\ gate.res.status = 500
        /\ gate.res.code # "PERMISSION_DENIED"

(* ------------------------------ HTTP routes ----------------------------- *)
\* the error object of a response that ends a request before its controller
ErrorBody(type, code, required) == [type |-> type, code |-> code, required |-> required]

\* authenticateToken without a token: 401 'Access token is required'
AuthenticateTokenDenied(op) ==
    Outcome(op, 401, "Access token is required", ErrorBody(NULL, NULL, {}))

\* the response a gate of the route sent instead of calling next()
RouteDenied(op, res) ==
    Outcome(op, res.status, res.message, ErrorBody(res.type, res.code, res.required))

\* mutant of ReadRouteGate: the request is handed on without the permission gate
ReadRouteGateOpen(storeOk, user, targetId) == Allow({})

\* the inline middleware of GET /user-permissions/:user_id and of
\* POST /check-permission: own id, else requirePermission('user.read')
ReadRouteGate(storeOk, user, targetId) ==
    IF user.id = targetId
    THEN Allow({})
    ELSE RequirePermissionResponse(storeOk, user, "user.read", FALSE, NULL, NULL)

\* GET /api/rbac/user-permissions/:user_id
GetUserPermissionsRoute(storeOk, user, targetId) ==
    /\ UNCHANGED <<storeVars, now, calls>>
    /\ gate' = NoGate
    /\ IF user.id = NULL
       THEN last' = AuthenticateTokenDenied("getUserPermissions")
       ELSE IF ReadRouteGate(storeOk, user, targetId).next
       THEN last' = Outcome("getUserPermissions", 200,
                            "User permissions retrieved successfully",
                            [user_id |-> targetId,
                             permissions |-> getUserPermissions(storeOk, targetId)])
       ELSE last' = RouteDenied("getUserPermissions",
                                ReadRouteGate(storeOk, user, targetId))

\* POST /api/rbac/check-permission
CheckPermissionRoute(storeOk, user, targetId, permission) ==
    /\ UNCHANGED <<storeVars, now, calls>>
    /\ gate' = NoGate
    /\ IF user.id = NULL
       THEN last' = AuthenticateTokenDenied("checkUserPermission")
       ELSE IF ReadRouteGate(storeOk, user, targetId).next
       THEN last' = Outcome("checkUserPermission", 200, "Permission check completed",
                            [user_id |-> targetId, permission |-> permission,
                             has_permission |->
                                 hasPermission(storeOk, targetId, permission)])
       ELSE last' = RouteDenied("checkUserPermission",
                                ReadRouteGate(storeOk, user, targetId))

\* roles assigned in the runs of the read routes: one that grants user.read
\* (moderator) and one that does not (tourist)
ReadRouteRoleNames == {"moderator", "tourist"}

\* permissions probed through POST /check-permission
ProbedPermissions == {"user.read", "message.update"}

\* requests to the two read routes, between a bootstrap and assignments and
\* removals of roles to both users
NextReadRoutes ==
    \/ InitializeRBAC
    \/ \E u \in Users, n \in ReadRouteRoleNames : AssignRoleToUser(u, n, "u2")
    \/ \E u \in Users, n \in ReadRouteRoleNames : RemoveRoleFromUser(u, n)
    \/ \E ok \in BOOLEAN, user \in ReqUsers, target \in Principals :
          GetUserPermissionsRoute(ok, user, target)
    \/ \E ok \in BOOLEAN, user \in ReqUsers, target \in Principals,
          X \in ProbedPermissions : CheckPermissionRoute(ok, user, target, X)

SpecReadRoutes == Init /\ [][NextReadRoutes]_vars

(* -------------------------------- C25 ----------------------------------- *)
\* what a request of caller user about principal target may answer
ReadRouteContract(user, target) ==
    /\ (last'.status = 200 /\ user.id # target) => HoldsPermission(user.id, "user.read")
    /\ last'.status # 200 =>
          /\ DOMAIN last'.record = {"type", "code", "required"}
          /\ last'.record.required \subseteq {"user.read"}

\* C25: GET /user-permissions/:user_id and POST /check-permission answer about
\* another principal only for a caller who holds 'user.read'; without it a
\* caller reads only the own permissions, and a denial carries the error object
\* (type, code, required permission), never a permission set of the target.
C25_ReadRoutesOwnOrUserRead ==
    [][last'.op \in {"getUserPermissions", "checkUserPermission"} =>
          \A user \in ReqUsers, target \in Principals :
              \/ ReadRouteContract(user, target)
              \/ ~\E ok \in BOOLEAN :
                    \/ GetUserPermissionsRoute(ok, user, target)
                    \/ \E X \in ProbedPermissions :
                          CheckPermissionRoute(ok, user, target, X)]_vars

\* u1 holds tourist only (no user.read), u2 holds moderator, and a request about
\* u2's permissions has just been denied with the required permission named
C25_Witness ==
    /\ last.op = "getUserPermissions" /\ last.status = 403
    /\ last.record.required = {"user.read"}
    /\ ~HoldsPermission("u1", "user.read")
    /\ getUserPermissions(TRUE, "u1") # {}
    /\ "user.read" \in getUserPermissions(TRUE, "u2")

(* ------------------------- the administrative routes -------------------- *)
\* the gate of the route sent a response: the controller does not run
RouteRefused(out) ==
    /\ last' = out
    /\ gate' = NoGate
    /\ UNCHANGED <<storeVars, now, calls>>

\* authenticateToken, requirePermission(permission), then the controller
PermissionRoute(op, storeOk, user, permission, Controller) ==
    IF user.id = NULL
    THEN RouteRefused(AuthenticateTokenDenied(op))
    ELSE IF RequirePermissionResponse(storeOk, user, permission, FALSE, NULL, NULL).next
    THEN Controller
    ELSE RouteRefused(RouteDenied(op,
            RequirePermissionResponse(storeOk, user, permission, FALSE, NULL, NULL)))

\* POST /api/rbac/initialize: authenticateToken, requireRole(['super_admin',
\* 'admin']), rbacController.initializeRBAC
InitializeRoute(storeOk, user) ==
    IF user.id = NULL
    THEN RouteRefused(AuthenticateTokenDenied("initializeRBAC"))
    ELSE IF RequireRoleResponse(storeOk, user, {"super_admin", "admin"}).next
    THEN InitializeRBAC
    ELSE RouteRefused(RouteDenied("initializeRBAC",
            RequireRoleResponse(storeOk, user, {"super_admin", "admin"})))

\* GET /api/rbac/roles, GET /api/rbac/roles/:id, GET /api/rbac/permissions:
\* read-only controllers behind requirePermission('role.read')
ListRoute(storeOk, user) ==
    PermissionRoute("getAllRoles", storeOk, user, "role.read",
        /\ last' = Outcome("getAllRoles", 200, "Roles retrieved successfully",
                           ErrorBody(NULL, NULL, {}))
        /\ gate' = NoGate
        /\ UNCHANGED <<storeVars, now, calls>>)

\* POST /api/rbac/roles
CreateRoleRoute(storeOk, user, name, permission_ids) ==
    PermissionRoute("createRole", storeOk, user, "role.create",
        CreateRole(name, CustomDisplayName, NULL, permission_ids))

\* PUT /api/rbac/roles/:id
UpdateRoleRoute(storeOk, user, id, permission_ids) ==
    PermissionRoute("updateRole", storeOk, user, "role.update",
        UpdateRole(id, NULL, NULL, NULL, TRUE, permission_ids))

\* DELETE /api/rbac/roles/:id
DeleteRoleRoute(storeOk, user, id) ==
    PermissionRoute("deleteRole", storeOk, user, "role.delete", DeleteRole(id))

\* POST /api/rbac/assign-role; assignedBy = req.user.id
AssignRoleRoute(storeOk, user, userId, roleName) ==
    PermissionRoute("assignRole", storeOk, user, "role.assign",
        AssignRoleToUser(userId, roleName, user.id))

\* POST /api/rbac/remove-role
RemoveRoleRoute(storeOk, user, userId, roleName) ==
    PermissionRoute("removeRole", storeOk, user, "role.assign",
        RemoveRoleFromUser(userId, roleName))

\* role names in the bodies of assign-role and remove-role
RouteRoleNames == {"admin", "super_admin"}

\* callers of the routes: no token, or a users row (users.rol is 'user' or 'admin')
RouteUsers == {NoUser, [id |-> "u1", rol |-> "user"], [id |-> "u2", rol |-> "admin"]}

\* a request to one of the routes of /api/rbac
RouteRequest ==
    \E user \in RouteUsers :
        \/ \E ok \in BOOLEAN : InitializeRoute(ok, user)
        \/ ListRoute(TRUE, user)
        \/ CreateRoleRoute(TRUE, user, "editor", {"role.assign"})
        \/ \E id \in TargetRoleIds : UpdateRoleRoute(TRUE, user, id, {"message.read"})
        \/ \E id \in TargetRoleIds : DeleteRoleRoute(TRUE, user, id)
        \/ \E ok \in BOOLEAN, n \in RouteRoleNames : AssignRoleRoute(ok, user, "u2", n)
        \/ \E n \in RouteRoleNames : RemoveRoleRoute(TRUE, user, "u2", n)
        \/ \E target \in Users : GetUserPermissionsRoute(TRUE, user, target)
        \/ \E target \in Users : CheckPermissionRoute(TRUE, user, target, "role.assign")

\* requests to the routes, and role assignments written by the service without
\* a route (rbacService.assignRole / removeRole called by a script)
NextHttp ==
    \/ RouteRequest
    \/ \E n \in RouteRoleNames : AssignRoleToUser("u1", n, "u2")
    \/ \E n \in RouteRoleNames : RemoveRoleFromUser("u1", n)

SpecHttp == Init /\ [][NextHttp]_vars

(* -------------------------------- C26 ----------------------------------- *)
\* the principal is a super_admin by the legacy role or by an active assignment
IsSuperAdmin(user) ==
    user.rol = "super_admin" \/ HasActiveAssignment(user.id, "super_admin")

\* C26: a request to POST /api/rbac/initialize reaches
\* rbacController.initializeRBAC (answer 200) only for a principal who is a
\* super_admin, by the legacy role or by an active assignment.
C26_InitializeSuperAdminOnly ==
    [][(last'.op = "initializeRBAC" /\ last'.status = 200) =>
          \A ok \in BOOLEAN, user \in RouteUsers :
              InitializeRoute(ok, user) => IsSuperAdmin(user)]_vars

(* -------------------------------- C29 ----------------------------------- *)
\* no principal has an active role assignment
NoActiveAssignment == \A ur \in userRoles : ~ur.is_active

\* C29: in a store where no principal has an active role assignment, no request
\* to a route of /api/rbac (POST /initialize by a legacy admin included) leaves
\* an active role assignment behind; by induction no sequence of such requests
\* does.
C29_RoutesCannotBootstrapAssignments ==
    [][(NoActiveAssignment /\ ~NoActiveAssignment') => ~RouteRequest]_vars

\* after a bootstrap, with a removed (inactive) assignment still stored and no
\* active one, POST /assign-role has just been refused for lack of role.assign
C29_Witness ==
    /\ last.op = "assignRole" /\ last.status = 403
    /\ last.record.required = {"role.assign"}
    /\ roles # {}
    /\ userRoles # {}
    /\ NoActiveAssignment

(* ------------- updateRole, one store round trip at a time --------------- *)
\* the grant rows of a role for a set of permissions
GrantRows(roleId, perms) == {[role_id |-> roleId, permission |-> p] : p \in perms}

\* a PUT /roles/:id with permission_ids enters RBACController.updateRole:
\* Role.findByPk, the is_system guard, role.update({}) and Permission.findAll
UpdateRoleBegin(slot, id, permission_ids) ==
    /\ calls[slot].pc = "idle"
    /\ UNCHANGED <<storeVars, now, gate>>
    /\ IF RoleFindByPk(id) = {}
       THEN /\ last' = Outcome("updateRole", 404, "Role not found", NULL)
            /\ UNCHANGED calls
       ELSE IF (CHOOSE r \in RoleFindByPk(id) : TRUE).is_system
       THEN /\ last' = Outcome("updateRole", 400, "Cannot modify system roles", NULL)
            /\ UNCHANGED calls
       ELSE /\ calls' = [calls EXCEPT ![slot] =
                 [pc |-> "setPermissions", role_id |-> id,
                  new |-> PermissionFindActiveIn(permission_ids), old |-> {},
                  destroyed |-> FALSE, created |-> FALSE]]
            /\ UNCHANGED last

\* role.setPermissions(permissions), first query: the role's current rows; the
\* rows to destroy are old \ new and the rows to create new \ old
SetPermissionsFindCurrent(slot) ==
    LET c == calls[slot] IN
    /\ c.pc = "setPermissions"
    /\ calls' = [calls EXCEPT ![slot] =
                    [c EXCEPT !.pc = "write", !.old = GrantSet(c.role_id),
                              !.destroyed = (GrantSet(c.role_id) \ c.new = {}),
                              !.created = (c.new \ GrantSet(c.role_id) = {})]]
    /\ UNCHANGED <<storeVars, now, last, gate>>

\* role.setPermissions, the DELETE of the obsolete rows; no transaction is
\* passed, so the statement commits by itself
SetPermissionsDestroy(slot) ==
    LET c == calls[slot] IN
    /\ c.pc = "write" /\ ~c.destroyed
    /\ rolePermissions' = rolePermissions \ GrantRows(c.role_id, c.old \ c.new)
    /\ calls' = [calls EXCEPT ![slot] = [c EXCEPT !.destroyed = TRUE]]
    /\ UNCHANGED <<roles, nextRoleId, permissions, userRoles, nextUserRoleId,
                   now, last, gate>>

\* role.setPermissions, the INSERT of the new rows, issued together with the
\* DELETE (Promise.all): the store runs the two in either order
SetPermissionsBulkCreate(slot) ==
    LET c == calls[slot] IN
    /\ c.pc = "write" /\ ~c.created
    /\ rolePermissions' = rolePermissions \cup GrantRows(c.role_id, c.new \ c.old)
    /\ calls' = [calls EXCEPT ![slot] = [c EXCEPT !.created = TRUE]]
    /\ UNCHANGED <<roles, nextRoleId, permissions, userRoles, nextUserRoleId,
                   now, last, gate>>

\* both statements are done: res.status(200).json(...)
UpdateRoleRespond(slot) ==
    LET c == calls[slot] IN
    /\ c.pc = "write" /\ c.destroyed /\ c.created
    /\ last' = Outcome("updateRole", 200, NULL, NULL)
    /\ calls' = [calls EXCEPT ![slot] = IdleCall]
    /\ UNCHANGED <<storeVars, now, gate>>

\* permission_ids of the stepwise updates
ReplaceIdLists == {{"message.update"}, {"message.read", "route.read"}, {}}

\* one updateRole at a time, step by step, on a custom role assigned to u1;
\* every state in between is a state a permission check of another request reads
NextReplace ==
    \/ InitializeRBAC
    \/ \E ids \in CreateIdLists : CreateRole("editor", CustomDisplayName, NULL, ids)
    \/ \E n \in RegistryRoleNames : AssignRoleToUser("u1", n, "u2")
    \/ \E n \in RegistryRoleNames : RemoveRoleFromUser("u1", n)
    \/ \E id \in TargetRoleIds, ids \in ReplaceIdLists : UpdateRoleBegin(1, id, ids)
    \/ SetPermissionsFindCurrent(1)
    \/ SetPermissionsDestroy(1)
    \/ SetPermissionsBulkCreate(1)
    \/ UpdateRoleRespond(1)

SpecReplace == Init /\ [][NextReplace]_vars

(* -------------------------------- C27 ----------------------------------- *)
\* C27: while updateRole replaces a role's permission set, a permission check
\* of a concurrent request reads either the complete old grant set of the role
\* or the complete new one: getUserPermissions of a principal holding only that
\* role is one of the two.
C27_ReplacementIsAtomic ==
    \A slot \in Slots :
        calls[slot].pc = "write" =>
            /\ GrantSet(calls[slot].role_id) \in {calls[slot].old, calls[slot].new}
            /\ \A P \in Users :
                  HoldsOnlyRole(P, calls[slot].role_id) =>
                      getUserPermissions(TRUE, P) \in {calls[slot].old, calls[slot].new}

(* ------------------- the gates, one statement at a time ----------------- *)
\* an invocation of a gate: the request, the statement it is at, the calls of
\* next() and the responses sent so far, and the store reads it has made
Invocation(handler, req) ==
    [kind |-> "run", handler |-> handler, req |-> req, pc |-> "auth", i |-> 1,
     nextCalls |-> 0, sent |-> <<>>, checks |-> 0]

\* return next()
CallNext(g) == [g EXCEPT !.pc = "done", !.nextCalls = @ + 1]

\* return res.status(status).json(...)
Send(g, status) == [g EXCEPT !.pc = "done", !.sent = Append(@, status)]

Goto(g, pc) == [g EXCEPT !.pc = pc]

\* a store read (await) has been made
Checked(g) == [g EXCEPT !.checks = @ + 1]

\* if (!req.user || !req.user.id) return res.status(401).json(...)
AuthStep(g, pc) == IF g.req.user.id = NULL THEN Send(g, 401) ELSE Goto(g, pc)

\* mutant of OwnerBranch: next() is called without return, the gate goes on
OwnerBranchFallsThrough(g) ==
    IF g.req.allowOwner /\ g.req.paramsId # NULL /\ g.req.bodyOwner = g.req.user.id
    THEN [g EXCEPT !.pc = "deny", !.nextCalls = @ + 1]
    ELSE Goto(g, "deny")

\* requirePermission: if (allowOwner && req.params.id) { if (req.body[ownerField]
\* === userId) return next(); }
OwnerBranch(g) ==
    IF g.req.allowOwner /\ g.req.paramsId # NULL /\ g.req.bodyOwner = g.req.user.id
    THEN CallNext(g)
    ELSE Goto(g, "deny")

\* requirePermission, statement by statement
RequirePermissionStep(g) ==
    CASE g.pc = "auth" -> AuthStep(g, "check")
      [] g.pc = "check" ->
            IF hasPermission(g.req.storeOk, g.req.user.id, g.req.permission)
            THEN CallNext(Checked(g))
            ELSE Goto(Checked(g), "owner")
      [] g.pc = "owner" -> OwnerBranch(g)
      [] OTHER -> Send(g, 403)

\* requireAnyPermission: for (const permission of permissions) { if (await
\* hasPermission(userId, permission)) return next(); } then 403
RequireAnyPermissionStep(g) ==
    CASE g.pc = "auth" -> AuthStep(g, "loop")
      [] g.pc = "loop" ->
            IF g.i > Len(g.req.permissions)
            THEN Goto(g, "deny")
            ELSE IF hasPermission(g.req.storeOk, g.req.user.id, g.req.permissions[g.i])
            THEN CallNext(Checked(g))
            ELSE [Checked(g) EXCEPT !.i = @ + 1]
      [] OTHER -> Send(g, 403)

\* requireRole, statement by statement; a rejected User.findByPk goes to the
\* catch block (500)
RequireRoleStep(g) ==
    CASE g.pc = "auth" -> AuthStep(g, "perms")
      [] g.pc = "perms" -> Goto(Checked(g), "legacy")
      [] g.pc = "legacy" ->
            IF g.req.user.rol # NULL /\ g.req.user.rol \in g.req.roleArray
            THEN CallNext(g)
            ELSE Goto(g, "lookup")
      [] g.pc = "lookup" ->
            IF ~g.req.storeOk
            THEN Send(Checked(g), 500)
            ELSE IF /\ UserFindByPk(g.req.user.id)
                    /\ \E role \in IncludedRoles(g.req.user.id) :
                          role.name \in g.req.roleArray
            THEN CallNext(Checked(g))
            ELSE Goto(Checked(g), "deny")
      [] OTHER -> Send(g, 403)

\* requireOwnership, statement by statement; a rejected Model.findByPk goes to
\* the catch block (500)
RequireOwnershipStep(g) ==
    CASE g.pc = "auth" -> AuthStep(g, "legacyAdmin")
      [] g.pc = "legacyAdmin" ->
            IF g.req.allowAdmin /\ g.req.user.rol \in {"admin", "super_admin"}
            THEN CallNext(g)
            ELSE Goto(g, "rbacAdmin")
      [] g.pc = "rbacAdmin" ->
            IF ~g.req.allowAdmin
            THEN Goto(g, "config")
            ELSE IF hasPermission(g.req.storeOk, g.req.user.id, "system.admin")
            THEN CallNext(Checked(g))
            ELSE Goto(Checked(g), "config")
      [] g.pc = "config" ->
            IF ~g.req.resourceModel \/ g.req.resourceId = NULL
            THEN Send(g, 400)
            ELSE Goto(g, "load")
      [] OTHER ->
            IF ~g.req.loadOk
            THEN Send(Checked(g), 500)
            ELSE IF ResourceFindByPk(g.req.resourceId) = {}
            THEN Send(Checked(g), 404)
            ELSE IF (CHOOSE m \in ResourceFindByPk(g.req.resourceId) : TRUE).created_by
                        # g.req.user.id
            THEN Send(Checked(g), 403)
            ELSE CallNext(Checked(g))

\* an invocation is under way
Running == gate.kind = "run" /\ gate.pc # "done"

\* express calls the gate of the matched route
GateEnter(handler, req) ==
    /\ ~Running
    /\ gate' = Invocation(handler, req)
    /\ last' = NoOutcome
    /\ UNCHANGED <<storeVars, now, calls>>

\* the invocation runs its next statement
GateStep ==
    /\ Running
    /\ gate' = CASE gate.handler = "requirePermission" -> RequirePermissionStep(gate)
                 [] gate.handler = "requireAnyPermission" -> RequireAnyPermissionStep(gate)
                 [] gate.handler = "requireRole" -> RequireRoleStep(gate)
                 [] OTHER -> RequireOwnershipStep(gate)
    /\ UNCHANGED <<storeVars, now, calls, last>>

\* permission lists the routes pass to requireAnyPermission
AnyPermissionLists == {<<"route.manage", "message.read">>, <<"system.admin">>}

\* the requests of the stepwise runs
PermissionRunRequests ==
    {[storeOk |-> ok, user |-> user, permission |-> "message.read",
      allowOwner |-> shape[1], paramsId |-> shape[2], bodyOwner |-> shape[3]] :
        ok \in BOOLEAN, user \in ReqUsers, shape \in PermissionRequests}

AnyPermissionRunRequests ==
    {[storeOk |-> ok, user |-> user, permissions |-> list] :
        ok \in BOOLEAN, user \in ReqUsers, list \in AnyPermissionLists}

RoleRunRequests ==
    {[storeOk |-> ok, user |-> user, roleArray |-> roleArray] :
        ok \in BOOLEAN, user \in ReqUsers, roleArray \in RoleArrays}

OwnershipRunRequests ==
    {[storeOk |-> ok, loadOk |-> loadOk, user |-> user, resourceModel |-> target[1],
      resourceId |-> target[2], allowAdmin |-> allowAdmin] :
        ok \in BOOLEAN, loadOk \in BOOLEAN, user \in ReqUsers,
        target \in OwnershipTargets, allowAdmin \in BOOLEAN}

\* gate invocations run statement by statement, one request at a time, between
\* administrative requests
NextGateRun ==
    \/ ~Running /\ InitializeRBAC
    \/ ~Running /\ CreateRole("editor", CustomDisplayName, NULL,
                              {"message.read", "system.admin"})
    \/ \E n \in AssignRoleNames : ~Running /\ AssignRoleToUser("u1", n, "u2")
    \/ \E req \in PermissionRunRequests : GateEnter("requirePermission", req)
    \/ \E req \in AnyPermissionRunRequests : GateEnter("requireAnyPermission", req)
    \/ \E req \in RoleRunRequests : GateEnter("requireRole", req)
    \/ \E req \in OwnershipRunRequests : GateEnter("requireOwnership", req)
    \/ GateStep

\* the event loop resumes every handler whose awaited promise has settled
SpecGateRun == Init /\ [][NextGateRun]_vars /\ WF_vars(GateStep)

(* -------------------------------- C28 ----------------------------------- *)
\* terminal outcomes of the invocation so far: calls of next() and responses
Outcomes == gate.nextCalls + Len(gate.sent)

\* C28: every invocation of requirePermission, requireAnyPermission,
\* requireRole and requireOwnership ends, and ends with exactly one terminal
\* outcome: one call of next() or one response, never both and never neither;
\* once the outcome is there the invocation runs no further statement, so it
\* makes no further check.
C28_OneTerminalOutcome ==
    /\ [](gate.kind = "run" =>
            /\ Outcomes <= 1
            /\ gate.pc = "done" <=> Outcomes = 1)
    /\ [][(gate.kind = "run" /\ Outcomes = 1) =>
            (gate'.kind = "run" => gate'.checks <= gate.checks \/ gate'.pc = "auth")]_vars
    /\ (gate.kind = "run") ~> (gate.kind = "run" => gate.pc = "done")

\* requireAnyPermission ended with a 403 after checking both permissions of its
\* list for a principal who holds a role
C28_Witness ==
    /\ gate.kind = "run" /\ gate.handler = "requireAnyPermission"
    /\ gate.pc = "done" /\ gate.sent = <<403>> /\ gate.nextCalls = 0
    /\ gate.checks = 2
    /\ \E ur \in userRoles : ur.user_id = gate.req.user.id /\ ur.is_active

(* -------------------------------- C30 ----------------------------------- *)
\* the names of the roles whose is_system flag is set
SystemRoleNames == {r.name : r \in {x \in roles : x.is_system}}

\* C30: createRole creates roles with is_system = false and no operation
\* changes a role's is_system flag, so once initializeRBAC has run (the
\* permission catalog exists) the roles with is_system = true are exactly the
\* six roles of initializeDefaultRoles: super_admin, admin, guide, moderator,
\* tourist, user.
C30_SystemRolesAreTheSixDefaults ==
    /\ \A r \in roles : r.is_system => r.name \in DefaultRoleNames
    /\ permissions # {} =>
          /\ SystemRoleNames = DefaultRoleNames
          /\ Cardinality({r \in roles : r.is_system}) = 6

====
